---- MODULE Spec2Model ----
(***************************************************************************)
(* Link ingestion and domain-aware processing pipeline of Eternalgy-News.  *)
(* The model follows news_search/processor_worker.py (ProcessorWorker),    *)
(* news_search/database.py (Database) and the callers of the worker in     *)
(* frontend/server.py.  Every Database method is one transaction and is    *)
(* modelled as one atomic step; a gateway call is two steps (the call is   *)
(* issued, the call returns) so that calls in flight are visible.          *)
(***************************************************************************)
EXTENDS Integers, Sequences, FiniteSets, TLC

\* ------------------------------------------------------------------------
\* Bounds of the model
\* ------------------------------------------------------------------------
MaxRuns == 2

MaxFaults == 1

MaxItems == 2

MaxTime == 6

\* ------------------------------------------------------------------------
\* Program constants (news_search/config.py)
\* ------------------------------------------------------------------------
MAX_CONCURRENT_DOMAINS == 3

MAX_RETRIES == 2

\* seconds between two requests to the same domain
SAME_DOMAIN_DELAY == 3

\* ------------------------------------------------------------------------
\* The rows of news_links.  A url is its host, as a sequence of labels, and
\* a path.  A row is named by the index of its url (its fingerprint); the
\* order in which the rows were inserted is kept in news_links.
\* ------------------------------------------------------------------------
Urls ==
  << [host |-> <<"www", "a">>, path |-> "1"],
     [host |-> <<"a">>,        path |-> "2"],
     [host |-> <<"b">>,        path |-> "1"],
     [host |-> <<"c">>,        path |-> "1"],
     [host |-> <<"d">>,        path |-> "1"] >>

Links == 1 .. Len(Urls)

\* url_normalizer.extract_domain: the hostname without a leading "www."
extract_domain(url) ==
  IF Len(url.host) > 1 /\ Head(url.host) = "www" THEN Tail(url.host) ELSE url.host

Hosts == { Urls[l].host : l \in Links }

Domains == { extract_domain(Urls[l]) : l \in Links }

\* every value a group key of _group_by_domain can take
Keys == Hosts \cup Domains

Statuses == {"pending", "processing", "completed", "failed", "blocked"}

\* the status recorded for an id that has no row in news_links (yet)
NoRow == "norow"

Terminal == {"completed", "failed", "blocked"}

\* outcomes of one ai_processor.process call: a result with success, a result
\* with blocked, a result with neither (error), None, or a raised exception
\* (which includes a timeout)
Outcomes == {"SUCCESS", "BLOCKED", "FAILURE", "NONE", "EXC"}

\* ------------------------------------------------------------------------
\* State
\* ------------------------------------------------------------------------
VARIABLES
  status,              \* news_links.status, by link id
  error_message,       \* news_links.error_message, by link id
  processed_content,   \* the number of processed_content rows, by link id
  blacklisted_sites,   \* the number of blacklisted_sites rows, by domain
  ai_processor,        \* ProcessorWorker.ai_processor is set (not None)
  domain_last_request, \* ProcessorWorker.domain_last_request: the dict from
                       \* a domain to the time.time() of its last request
  cpc,                 \* the coordinator: "idle" or "running"
  kind,                \* entry point of the current/last run
  runs,                \* coordinator runs started so far
  batch,               \* the links fetched for the current/last run
  domain_groups,       \* result of _group_by_domain for the run
  queue,               \* submitted tasks no pool thread has taken yet
  stats,               \* the aggregate built by _process_domains
  collected,           \* futures as_completed has already yielded
  wpc,                 \* position of the _process_domain call of each key
  idx,                 \* index (from 1) of the link the call is at
  attempt,             \* loop variable of _process_single_link
  last_error,          \* local last_error of _process_single_link
  wstats,              \* local stats of the _process_domain call
  calls,               \* gateway calls issued per link in the current run
  returned,            \* outcomes of the calls _process_single_link has
                       \* issued so far for the link it is at, in order
  reached_blacklisted, \* links whose domain had a blacklist entry when the
                       \* worker of the current run reached them
  at_start,            \* status of every link when the current run started
  blocked_seen,        \* domains the gateway has reported BLOCKED for
  saves,               \* save_processed_content calls committed per link
                       \* in the current run
  faults,              \* store operations that raised so far
  processed_at,        \* news_links.processed_at, by link id: NULL or a
                       \* timestamp (the value of the stamp is not kept)
  news_links,          \* the url_hash column of the rows of news_links in
                       \* the order of their ids (SERIAL)
  title,               \* news_links.title, by link id
  item,                \* the item each _process_urls run is at
  dpc,                 \* position of each _process_urls run
  taken,               \* items of results each run has taken so far
  seen,                \* fingerprints of the valid items each run is past
  summary,             \* new_links, duplicates, invalid and processed_urls
                       \* of each _process_urls run
  now,                 \* the clock: what time.time() returns, in seconds
  wake,                \* the time at which the time.sleep of the
                       \* _apply_rate_limit call of each key is over
  wait_returns,        \* the times at which _apply_rate_limit has returned
                       \* for each key, in order
  other,               \* the locals of the other coordinator run in
                       \* progress on the same ProcessorWorker, NoRun
                       \* while there is only one
  query_tasks,         \* total_runs and total_links_found of the row of
                       \* the task in query_tasks
  query_task_runs      \* the number of rows of query_task_runs

store == << status, error_message, processed_at, processed_content,
           blacklisted_sites >>

\* the columns and the locals only discovery (_process_urls) writes
discovery == << news_links, title, item, dpc, taken, seen, summary >>

\* the tables of the query tasks
tasks == << query_tasks, query_task_runs >>

\* the clock and what depends on its value
timing == << now, wake, wait_returns >>

worker == << wpc, idx, attempt, last_error, wstats >>

coord == << cpc, kind, runs, batch, domain_groups, queue, stats, collected >>

\* what has happened so far, recorded for the properties only
hist == << calls, returned, reached_blacklisted, at_start, blocked_seen,
          saves >>

vars == << status, error_message, processed_content, blacklisted_sites,
           ai_processor, domain_last_request, cpc, kind, runs, batch,
           domain_groups, queue, stats, collected, wpc, idx, attempt,
           last_error, wstats, calls, returned, reached_blacklisted, at_start,
           blocked_seen, faults, processed_at, news_links, title, item, dpc,
           taken, seen, summary, now, wake, wait_returns, saves, other,
           query_tasks, query_task_runs >>

\* ------------------------------------------------------------------------
\* Pure helpers
\* ------------------------------------------------------------------------
Min(S) == CHOOSE x \in S : \A y \in S : x <= y

\* the ids of S in heap order (a SELECT without ORDER BY)
RECURSIVE AscSeq(_)
AscSeq(S) == IF S = {} THEN << >> ELSE << Min(S) >> \o AscSeq(S \ {Min(S)})

Take(s, n) == SubSeq(s, 1, IF n < Len(s) THEN n ELSE Len(s))

Range(s) == { s[i] : i \in DOMAIN s }

Reverse(s) == [ i \in 1 .. Len(s) |-> s[Len(s) + 1 - i] ]

\* the rows whose id is in S, most recently discovered first (ORDER BY
\* discovered_at DESC): discovered_at is the time of the INSERT, so this is
\* the reverse of the order in which the rows were inserted
RecentFirst(S) == SelectSeq(Reverse(news_links), LAMBDA l : l \in S)

\* faulty variant: failed links are selected as well
get_pending_links_or_failed(limit) ==
  Take(RecentFirst({ l \in Links : status[l] \in {"pending", "failed"} }), limit)

\* faulty variant: the oldest links first (ORDER BY discovered_at ASC)
get_pending_links_oldest_first(limit) ==
  Take(Reverse(RecentFirst({ l \in Links : status[l] = "pending" })), limit)

\* Database.get_pending_links(limit): SELECT ... WHERE status = 'pending'
\* ORDER BY discovered_at DESC LIMIT limit
get_pending_links(limit) ==
  Take(RecentFirst({ l \in Links : status[l] = "pending" }), limit)

\* Database.get_links_by_status(task, statuses, limit), as a list of ids
get_links_by_status(statuses, limit) ==
  Take(RecentFirst({ l \in Links : status[l] \in statuses }), limit)

\* Database.get_links_by_ids
get_links_by_ids(link_ids) == AscSeq(Range(link_ids) \cap Links)

\* Database.is_domain_blacklisted
is_domain_blacklisted(domain) == blacklisted_sites[domain] > 0

\* faulty variant: the key is the raw host, "www." is not stripped
group_by_domain_raw_host(links) ==
  [ k \in Keys |-> SelectSeq(links, LAMBDA l : Urls[l].host = k) ]

\* faulty variant: a link is put at the front of the list of its key
group_by_domain_prepend(links) ==
  [ k \in Keys |-> Reverse(SelectSeq(links, LAMBDA l : extract_domain(Urls[l]) = k)) ]

\* ProcessorWorker._group_by_domain: the list of links of every key, in
\* input order; a key that is not in the dict has the empty list
group_by_domain(links) ==
  [ k \in Keys |-> SelectSeq(links, LAMBDA l : extract_domain(Urls[l]) = k) ]

\* the keys of the dict in insertion order, which is the order of submission
RECURSIVE KeyOrder(_, _)
KeyOrder(links, groups) ==
  IF links = << >> THEN << >>
  ELSE LET here == { k \in Keys : groups[k] # << >> /\ Head(groups[k]) = Head(links) }
       IN  (IF here = {} THEN << >> ELSE << CHOOSE k \in here : TRUE >>)
           \o KeyOrder(Tail(links), groups)

ZeroStats == [ total |-> 0, success |-> 0, failed |-> 0, skipped |-> 0,
               details |-> << >> ]

ZeroAggregate == [ total |-> 0, success |-> 0, failed |-> 0, skipped |-> 0,
                   by_domain |-> << >>, details |-> << >> ]

RunKeys == { k \in Keys : domain_groups[k] # << >> }

\* faulty variant: the list of the domain is walked from its end
cur_from_end(k) == domain_groups[k][Len(domain_groups[k]) + 1 - idx[k]]

\* the link the _process_domain call of key k is at
cur(k) == domain_groups[k][idx[k]]

\* pool threads that are running a task
Active == { k \in Keys : wpc[k] \notin {"none", "queued", "done", "raised"} }

\* ------------------------------------------------------------------------
\* Discovery input.  A raw url has a scheme, a host that may have upper-case
\* letters, a path, and possibly a tracking parameter (utm_source=...).
\* ------------------------------------------------------------------------
\* the concurrent callers of NewsSearchModule._process_urls
Discoverers == {1, 2}

\* what an item carries as title: None, an empty string, or a text
Titles == {"NULL", "", "t1", "t2"}

RawUrls ==
  { [scheme |-> "https", host |-> <<"d">>, path |-> "1", utm |-> FALSE],
    [scheme |-> "https", host |-> <<"D">>, path |-> "1", utm |-> TRUE],
    [scheme |-> "https", host |-> <<"b">>, path |-> "1", utm |-> FALSE],
    [scheme |-> "ftp",   host |-> <<"d">>, path |-> "1", utm |-> FALSE] }

\* the items the search client can deliver
Items ==
  { [url |-> u, title |-> t] : u \in RawUrls, t \in {"NULL", "t1"} }
  \cup { [url |-> [scheme |-> "https", host |-> <<"D">>, path |-> "1", utm |-> TRUE],
          title |-> t] : t \in {"", "t2"} }

NoItem == [url |-> "None", title |-> "NULL"]

lower(label) == IF label = "D" THEN "d" ELSE label

\* url_normalizer.is_valid_url: an http/https scheme and a host
is_valid_url(raw) == raw.scheme \in {"http", "https"} /\ raw.host # << >>

\* url_normalizer.normalize_url: the host in lower case, no tracking
\* parameter; the path as it is
normalize_url(raw) ==
  [ host |-> [ i \in DOMAIN raw.host |-> lower(raw.host[i]) ], path |-> raw.path ]

\* hash_url: the SHA256 digest of the url; a row is named by the index of
\* its url in Urls, and equal urls (only) have equal digests
hash_url(url) == CHOOSE l \in Links : Urls[l] = url

\* the fingerprint _process_urls computes for the item of run r
url_hash_value(r) == hash_url(normalize_url(item[r].url))

ZeroSummary == [ new_links |-> 0, duplicates |-> 0, invalid |-> 0, urls |-> << >> ]

\* the number of rows of news_links with this url_hash
Rows(url_hash) == Cardinality({ i \in DOMAIN news_links : news_links[i] = url_hash })

\* ------------------------------------------------------------------------
\* Initial states: the links of discovered have been inserted and are
\* pending (the column default), nothing has been processed, and the worker
\* is constructed with a gateway (ProcessorWorker(ai_processor=adapter)) or
\* without one (ProcessorWorker()).
\* ------------------------------------------------------------------------
\* the state of a ProcessorWorker after __init__ and of every call that has
\* not started
Constructed(processors) ==
  /\ ai_processor \in processors
  /\ domain_last_request = << >>
  /\ cpc = "idle"
  /\ kind = "none"
  /\ runs = 0
  /\ batch = << >>
  /\ domain_groups = [ k \in Keys |-> << >> ]
  /\ queue = << >>
  /\ stats = ZeroAggregate
  /\ collected = {}
  /\ wpc = [ k \in Keys |-> "none" ]
  /\ idx = [ k \in Keys |-> 0 ]
  /\ attempt = [ k \in Keys |-> 0 ]
  /\ last_error = [ k \in Keys |-> "None" ]
  /\ wstats = [ k \in Keys |-> ZeroStats ]
  /\ calls = [ l \in Links |-> 0 ]
  /\ returned = [ k \in Keys |-> << >> ]
  /\ reached_blacklisted = {}
  /\ at_start = status
  /\ blocked_seen = {}
  /\ saves = [ l \in Links |-> 0 ]
  /\ faults = 0
  /\ item = [ r \in Discoverers |-> NoItem ]
  /\ dpc = [ r \in Discoverers |-> "none" ]
  /\ taken = [ r \in Discoverers |-> 0 ]
  /\ seen = [ r \in Discoverers |-> {} ]
  /\ summary = [ r \in Discoverers |-> ZeroSummary ]
  /\ now = 0
  /\ wake = [ k \in Keys |-> 0 ]
  /\ wait_returns = [ k \in Keys |-> << >> ]
  /\ other = [ cpc |-> "none" ]
  /\ query_tasks = [ total_runs |-> 0, total_links_found |-> 0 ]
  /\ query_task_runs = 0

InitWith(discovered, processors) ==
  /\ status = [ l \in Links |-> IF l \in discovered THEN "pending" ELSE NoRow ]
  /\ error_message = [ l \in Links |-> "NULL" ]
  /\ processed_content = [ l \in Links |-> 0 ]
  /\ blacklisted_sites = [ d \in Keys |-> 0 ]
  /\ processed_at = [ l \in Links |-> "NULL" ]
  /\ news_links = AscSeq(discovered)
  /\ title = [ l \in Links |-> "NULL" ]
  /\ Constructed(processors)

\* ------------------------------------------------------------------------
\* Database.update_link_status: one UPDATE of status and error_message
\* ------------------------------------------------------------------------
update_link_status(link_id, new_status, message) ==
  /\ status' = [ status EXCEPT ![link_id] = new_status ]
  /\ error_message' = [ error_message EXCEPT ![link_id] = message ]
  /\ processed_at' = IF new_status \in {"completed", "failed"}
                     THEN [ processed_at EXCEPT ![link_id] = "CURRENT_TIMESTAMP" ]
                     ELSE processed_at

\* ------------------------------------------------------------------------
\* The coordinator
\* ------------------------------------------------------------------------
\* ProcessorWorker._process_domains up to the end of the submit loop: a fresh
\* stats dict, and one task per key of domain_groups, submitted in dict order
process_domains(entry, links, groups) ==
  /\ cpc' = "running"
  /\ kind' = entry
  /\ runs' = runs + 1
  /\ batch' = links
  /\ domain_groups' = groups
  /\ queue' = KeyOrder(links, groups)
  /\ stats' = ZeroAggregate
  /\ collected' = {}
  /\ wpc' = [ k \in Keys |-> IF groups[k] # << >> THEN "queued" ELSE "none" ]
  /\ idx' = [ k \in Keys |-> 0 ]
  /\ attempt' = [ k \in Keys |-> 0 ]
  /\ last_error' = [ k \in Keys |-> "None" ]
  /\ wstats' = [ k \in Keys |-> ZeroStats ]
  /\ calls' = [ l \in Links |-> 0 ]
  /\ returned' = [ k \in Keys |-> << >> ]
  /\ reached_blacklisted' = {}
  /\ at_start' = status
  /\ saves' = [ l \in Links |-> 0 ]

\* the early return of process_pending_links / process_specific_links
return_empty(entry) ==
  /\ cpc' = "idle"
  /\ kind' = entry
  /\ runs' = runs + 1
  /\ batch' = << >>
  /\ domain_groups' = [ k \in Keys |-> << >> ]
  /\ queue' = << >>
  /\ stats' = ZeroAggregate
  /\ collected' = {}
  /\ wpc' = [ k \in Keys |-> "none" ]
  /\ idx' = [ k \in Keys |-> 0 ]
  /\ attempt' = [ k \in Keys |-> 0 ]
  /\ last_error' = [ k \in Keys |-> "None" ]
  /\ wstats' = [ k \in Keys |-> ZeroStats ]
  /\ calls' = [ l \in Links |-> 0 ]
  /\ returned' = [ k \in Keys |-> << >> ]
  /\ reached_blacklisted' = {}
  /\ at_start' = status
  /\ saves' = [ l \in Links |-> 0 ]

\* ProcessorWorker.process_specific_links
process_specific_links(entry, link_ids) ==
  LET links == get_links_by_ids(link_ids)
  IN  IF links = << >> THEN return_empty(entry)
      ELSE process_domains(entry, links, group_by_domain(links))

\* ProcessorWorker.process_pending_links(limit)
process_pending_links(limit) ==
  /\ cpc = "idle"
  /\ runs < MaxRuns
  /\ LET pending_links == get_pending_links(limit)
     IN  IF pending_links = << >> THEN return_empty("pending")
         ELSE process_domains("pending", pending_links,
                              group_by_domain(pending_links))
  /\ UNCHANGED << store, ai_processor, other, tasks, timing, discovery, domain_last_request, blocked_seen, faults >>

\* frontend/server.py reprocess_task_links(limit): the pending and failed
\* links are handed to process_specific_links; refused without a gateway
reprocess_task_links(limit) ==
  /\ cpc = "idle"
  /\ runs < MaxRuns
  /\ LET links == get_links_by_status({"pending", "failed"}, limit)
     IN  /\ links # << >>
         /\ ai_processor
         /\ process_specific_links("specific", links)
  /\ UNCHANGED << store, ai_processor, other, tasks, timing, discovery, domain_last_request, blocked_seen, faults >>

\* reset_links.py: the administrative requeue of completed links
reset_links ==
  /\ cpc = "idle"
  /\ \E l \in Links : status[l] = "completed"
  /\ status' = [ l \in Links |-> IF status[l] = "completed" THEN "pending"
                                  ELSE status[l] ]
  /\ error_message' = [ l \in Links |-> IF status[l] = "completed" THEN "NULL"
                                         ELSE error_message[l] ]
  /\ UNCHANGED << processed_at, processed_content, blacklisted_sites,
                  ai_processor, other, tasks, timing, discovery, domain_last_request, coord, worker,
                  hist, faults >>

\* faulty variant: the pool has no limit on its threads
Dispatch_unbounded(k) ==
  /\ cpc = "running"
  /\ queue # << >>
  /\ k = Head(queue)
  /\ queue' = Tail(queue)
  /\ wpc' = [ wpc EXCEPT ![k] = "rate" ]
  /\ idx' = [ idx EXCEPT ![k] = 1 ]
  /\ wstats' = [ wstats EXCEPT ![k] = [ ZeroStats EXCEPT !.total = Len(domain_groups[k]) ] ]
  /\ UNCHANGED << store, ai_processor, other, tasks, timing, discovery, domain_last_request, cpc, kind, runs,
                  batch, domain_groups, stats, collected, attempt, last_error,
                  hist, faults >>

\* a pool thread takes the oldest submitted task (at most
\* MAX_CONCURRENT_DOMAINS threads) and enters _process_domain
Dispatch(k) ==
  /\ cpc = "running"
  /\ queue # << >>
  /\ k = Head(queue)
  /\ Cardinality(Active) < MAX_CONCURRENT_DOMAINS
  /\ queue' = Tail(queue)
  /\ wpc' = [ wpc EXCEPT ![k] = "rate" ]
  /\ idx' = [ idx EXCEPT ![k] = 1 ]
  /\ wstats' = [ wstats EXCEPT ![k] = [ ZeroStats EXCEPT !.total = Len(domain_groups[k]) ] ]
  /\ UNCHANGED << store, ai_processor, other, tasks, timing, discovery, domain_last_request, cpc, kind, runs,
                  batch, domain_groups, stats, collected, attempt, last_error,
                  hist, faults >>

\* faulty variant: the partial stats of a failed future are merged too
Collect_merge_raised(k) ==
  /\ cpc = "running"
  /\ wpc[k] \in {"done", "raised"}
  /\ k \notin collected
  /\ collected' = collected \cup {k}
  /\ stats' =
       [ total     |-> stats.total + wstats[k].total,
         success   |-> stats.success + wstats[k].success,
         failed    |-> stats.failed + wstats[k].failed,
         skipped   |-> stats.skipped + wstats[k].skipped,
         by_domain |-> [ d \in (DOMAIN stats.by_domain) \cup {k} |->
                           IF d = k THEN wstats[k] ELSE stats.by_domain[d] ],
         details   |-> stats.details \o wstats[k].details ]
  /\ UNCHANGED << store, ai_processor, other, tasks, timing, discovery, domain_last_request, cpc, kind, runs,
                  batch, domain_groups, queue, worker, hist, faults >>

\* faulty variant: details is assigned the list of the domain, not extended
Collect_details_assigned(k) ==
  /\ cpc = "running"
  /\ wpc[k] \in {"done", "raised"}
  /\ k \notin collected
  /\ collected' = collected \cup {k}
  /\ stats' =
       IF wpc[k] = "raised" THEN stats
       ELSE [ total     |-> stats.total + wstats[k].total,
              success   |-> stats.success + wstats[k].success,
              failed    |-> stats.failed + wstats[k].failed,
              skipped   |-> stats.skipped + wstats[k].skipped,
              by_domain |-> [ d \in (DOMAIN stats.by_domain) \cup {k} |->
                                IF d = k THEN wstats[k] ELSE stats.by_domain[d] ],
              details   |-> wstats[k].details ]
  /\ UNCHANGED << store, ai_processor, other, tasks, timing, discovery, domain_last_request, cpc, kind,
                  runs, batch, domain_groups, queue, worker, hist, faults >>

\* one iteration of the as_completed loop of _process_domains: the result of
\* a finished future is merged, the exception of a failed one is dropped
Collect(k) ==
  /\ cpc = "running"
  /\ wpc[k] \in {"done", "raised"}
  /\ k \notin collected
  /\ collected' = collected \cup {k}
  /\ stats' =
       IF wpc[k] = "raised" THEN stats
       ELSE [ total     |-> stats.total + wstats[k].total,
              success   |-> stats.success + wstats[k].success,
              failed    |-> stats.failed + wstats[k].failed,
              skipped   |-> stats.skipped + wstats[k].skipped,
              by_domain |-> [ d \in (DOMAIN stats.by_domain) \cup {k} |->
                                IF d = k THEN wstats[k] ELSE stats.by_domain[d] ],
              details   |-> stats.details \o wstats[k].details ]
  /\ UNCHANGED << store, ai_processor, other, tasks, timing, discovery, domain_last_request, cpc, kind, runs,
                  batch, domain_groups, queue, worker, hist, faults >>

\* faulty variant: the coordinator waits until every task has returned a
\* result, and a task that raised never does
Return_waits_for_results ==
  /\ cpc = "running"
  /\ \A k \in RunKeys : wpc[k] = "done"
  /\ collected = RunKeys
  /\ cpc' = "idle"
  /\ UNCHANGED << store, ai_processor, other, tasks, timing, discovery, domain_last_request, kind, runs, batch,
                  domain_groups, queue, stats, collected, worker, hist, faults >>

\* _process_domains returns stats once as_completed is exhausted
Return ==
  /\ cpc = "running"
  /\ collected = RunKeys
  /\ cpc' = "idle"
  /\ UNCHANGED << store, ai_processor, other, tasks, timing, discovery, domain_last_request, kind, runs, batch,
                  domain_groups, queue, stats, collected, worker, hist, faults >>

\* ------------------------------------------------------------------------
\* The domain worker: ProcessorWorker._process_domain(domain = k, links)
\* ------------------------------------------------------------------------
\* faulty variant: a blocked result falls into the else branch (failed)
record_result_blocked_as_failed(k, result) ==
  /\ attempt' = [ attempt EXCEPT ![k] = 0 ]
  /\ last_error' = [ last_error EXCEPT ![k] = "None" ]
  /\ returned' = [ returned EXCEPT ![k] = << >> ]
  /\ wstats' = [ wstats EXCEPT ![k] =
        [ total   |-> @.total,
          success |-> @.success + (IF result.status = "success" THEN 1 ELSE 0),
          failed  |-> @.failed +
                      (IF result.status \notin {"success", "skipped"} THEN 1 ELSE 0),
          skipped |-> @.skipped + (IF result.status = "skipped" THEN 1 ELSE 0),
          details |-> Append(@.details, result) ] ]
  /\ IF idx[k] < Len(domain_groups[k])
     THEN /\ idx' = [ idx EXCEPT ![k] = @ + 1 ]
          /\ wpc' = [ wpc EXCEPT ![k] = "rate" ]
     ELSE /\ idx' = idx
          /\ wpc' = [ wpc EXCEPT ![k] = "done" ]

\* faulty variant: the blacklisted branch counts the link but appends no detail
record_result_no_detail_when_blacklisted(k, result) ==
  /\ attempt' = [ attempt EXCEPT ![k] = 0 ]
  /\ last_error' = [ last_error EXCEPT ![k] = "None" ]
  /\ returned' = [ returned EXCEPT ![k] = << >> ]
  /\ wstats' = [ wstats EXCEPT ![k] =
        [ total   |-> @.total,
          success |-> @.success + (IF result.status = "success" THEN 1 ELSE 0),
          failed  |-> @.failed +
                      (IF result.status \notin {"success", "blocked", "skipped"}
                       THEN 1 ELSE 0),
          skipped |-> @.skipped +
                      (IF result.status \in {"blocked", "skipped"} THEN 1 ELSE 0),
          details |-> IF result.reason = "Domain blacklisted" THEN @.details
                      ELSE Append(@.details, result) ] ]
  /\ IF idx[k] < Len(domain_groups[k])
     THEN /\ idx' = [ idx EXCEPT ![k] = @ + 1 ]
          /\ wpc' = [ wpc EXCEPT ![k] = "rate" ]
     ELSE /\ idx' = idx
          /\ wpc' = [ wpc EXCEPT ![k] = "done" ]

\* the tail of one iteration of the loop of _process_domain: the counter the
\* result's status selects is incremented, the result is appended to details,
\* and the loop goes to the next link or the function returns stats; the
\* locals of _process_single_link are gone
record_result(k, result) ==
  /\ attempt' = [ attempt EXCEPT ![k] = 0 ]
  /\ last_error' = [ last_error EXCEPT ![k] = "None" ]
  /\ returned' = [ returned EXCEPT ![k] = << >> ]
  /\ wstats' = [ wstats EXCEPT ![k] =
        [ total   |-> @.total,
          success |-> @.success + (IF result.status = "success" THEN 1 ELSE 0),
          failed  |-> @.failed +
                      (IF result.status \notin {"success", "blocked", "skipped"}
                       THEN 1 ELSE 0),
          skipped |-> @.skipped +
                      (IF result.status \in {"blocked", "skipped"} THEN 1 ELSE 0),
          details |-> Append(@.details, result) ] ]
  /\ IF idx[k] < Len(domain_groups[k])
     THEN /\ idx' = [ idx EXCEPT ![k] = @ + 1 ]
          /\ wpc' = [ wpc EXCEPT ![k] = "rate" ]
     ELSE /\ idx' = idx
          /\ wpc' = [ wpc EXCEPT ![k] = "done" ]

\* faulty variant: range(1, MAX_RETRIES + 2), one attempt too many
next_attempt_one_more(k, error) ==
  /\ last_error' = [ last_error EXCEPT ![k] = error ]
  /\ attempt' = [ attempt EXCEPT ![k] = @ + 1 ]
  /\ wpc' = [ wpc EXCEPT ![k] = IF attempt[k] <= MAX_RETRIES THEN "attempt"
                                 ELSE "exhausted" ]

\* the end of one iteration of the retry loop of _process_single_link that
\* neither returned nor raised: next attempt, or leave the loop
next_attempt(k, error) ==
  /\ last_error' = [ last_error EXCEPT ![k] = error ]
  /\ attempt' = [ attempt EXCEPT ![k] = @ + 1 ]
  /\ wpc' = [ wpc EXCEPT ![k] = IF attempt[k] < MAX_RETRIES THEN "attempt"
                                 ELSE "exhausted" ]

\* faulty variant: one timestamp for all domains
record_request_global(k) ==
  domain_last_request' = [ d \in Keys |-> now ]

\* self.domain_last_request[domain] = time.time()
record_request(k) ==
  domain_last_request' =
    [ d \in (DOMAIN domain_last_request) \cup {k} |->
        IF d = k THEN now ELSE domain_last_request[d] ]

\* _apply_rate_limit(domain) with the time it takes left out: the call
\* returns and the entry of the domain is (re)written
ApplyRateLimit(k) ==
  /\ wpc[k] = "rate"
  /\ record_request(k)
  /\ wpc' = [ wpc EXCEPT ![k] = "check" ]
  /\ UNCHANGED << store, ai_processor, other, tasks, timing, discovery, coord, idx, attempt,
                  last_error, wstats, hist, faults >>

\* faulty variant: the thread sleeps for the time that has elapsed, not for
\* the rest of the delay
RateLimitEnter_sleeps_elapsed(k) ==
  /\ wpc[k] = "rate"
  /\ wake' = [ wake EXCEPT ![k] =
                IF /\ k \in DOMAIN domain_last_request
                   /\ now - domain_last_request[k] < SAME_DOMAIN_DELAY
                THEN now + (now - domain_last_request[k])
                ELSE now ]
  /\ wpc' = [ wpc EXCEPT ![k] = "sleep" ]
  /\ UNCHANGED << store, ai_processor, other, tasks, now, wait_returns, discovery,
                  domain_last_request, coord, idx, attempt, last_error,
                  wstats, hist, faults >>

\* _apply_rate_limit(domain) up to time.sleep: the entry of the domain and
\* the clock are read, and the thread sleeps for the rest of the delay when
\* less than SAME_DOMAIN_DELAY has elapsed
RateLimitEnter(k) ==
  /\ wpc[k] = "rate"
  /\ wake' = [ wake EXCEPT ![k] =
                IF /\ k \in DOMAIN domain_last_request
                   /\ now - domain_last_request[k] < SAME_DOMAIN_DELAY
                THEN now + (SAME_DOMAIN_DELAY - (now - domain_last_request[k]))
                ELSE now ]
  /\ wpc' = [ wpc EXCEPT ![k] = "sleep" ]
  /\ UNCHANGED << store, ai_processor, other, tasks, now, wait_returns, discovery,
                  domain_last_request, coord, idx, attempt, last_error,
                  wstats, hist, faults >>

\* the rest of _apply_rate_limit(domain): the sleep, if any, is over, the
\* entry of the domain is written and the call returns
RateLimitReturn(k) ==
  /\ wpc[k] = "sleep"
  /\ now >= wake[k]
  /\ record_request(k)
  /\ wait_returns' = [ wait_returns EXCEPT ![k] = Append(@, now) ]
  /\ wpc' = [ wpc EXCEPT ![k] = "check" ]
  /\ UNCHANGED << store, ai_processor, other, tasks, now, wake, discovery, coord, idx,
                  attempt, last_error, wstats, hist, faults >>

\* a second passes
Tick ==
  /\ now < MaxTime
  /\ now' = now + 1
  /\ UNCHANGED << store, ai_processor, other, tasks, wake, wait_returns, discovery,
                  domain_last_request, coord, worker, hist, faults >>

\* faulty variant: the blacklist is not consulted
CheckBlacklist_ignored(k) ==
  /\ wpc[k] = "check"
  /\ wpc' = [ wpc EXCEPT ![k] = "mark" ]
  /\ reached_blacklisted' =
       IF is_domain_blacklisted(extract_domain(Urls[cur(k)]))
       THEN reached_blacklisted \cup { cur(k) } ELSE reached_blacklisted
  /\ UNCHANGED << store, ai_processor, other, tasks, timing, discovery, domain_last_request, coord, idx, attempt,
                  last_error, wstats, calls, returned, at_start, saves, blocked_seen,
                  faults >>

\* if self.db.is_domain_blacklisted(domain)
CheckBlacklist(k) ==
  /\ wpc[k] = "check"
  /\ wpc' = [ wpc EXCEPT ![k] = IF is_domain_blacklisted(k) THEN "skip" ELSE "mark" ]
  /\ reached_blacklisted' =
       IF is_domain_blacklisted(extract_domain(Urls[cur(k)]))
       THEN reached_blacklisted \cup { cur(k) } ELSE reached_blacklisted
  /\ UNCHANGED << store, ai_processor, other, tasks, timing, discovery, domain_last_request, coord, idx, attempt,
                  last_error, wstats, calls, returned, at_start, saves, blocked_seen,
                  faults >>

\* faulty variant: the detail of a skipped blacklisted link says skipped
SkipBlacklisted_detail_skipped(k) ==
  /\ wpc[k] = "skip"
  /\ update_link_status(cur(k), "blocked", "Domain blacklisted")
  /\ record_result(k, [ link_id |-> cur(k), status |-> "skipped",
                        reason |-> "Domain blacklisted" ])
  /\ UNCHANGED << processed_content, blacklisted_sites, ai_processor, other, tasks, timing, discovery,
                  domain_last_request, coord, calls, reached_blacklisted, at_start, saves,
                  blocked_seen, faults >>

\* the blacklisted branch: status blocked, skipped += 1, a detail, continue
SkipBlacklisted(k) ==
  /\ wpc[k] = "skip"
  /\ update_link_status(cur(k), "blocked", "Domain blacklisted")
  /\ record_result(k, [ link_id |-> cur(k), status |-> "blocked",
                        reason |-> "Domain blacklisted" ])
  /\ UNCHANGED << processed_content, blacklisted_sites, ai_processor, other, tasks, timing, discovery,
                  domain_last_request, coord, calls, reached_blacklisted, at_start, saves,
                  blocked_seen, faults >>

\* self.db.update_link_status(link['id'], 'processing'), then the entry of
\* _process_single_link
MarkProcessing(k) ==
  /\ wpc[k] = "mark"
  /\ update_link_status(cur(k), "processing", "NULL")
  /\ wpc' = [ wpc EXCEPT ![k] = "attempt" ]
  /\ attempt' = [ attempt EXCEPT ![k] = 1 ]
  /\ last_error' = [ last_error EXCEPT ![k] = "None" ]
  /\ UNCHANGED << processed_content, blacklisted_sites, ai_processor, other, tasks, timing, discovery,
                  domain_last_request, coord, idx, wstats, hist, faults >>

\* self.ai_processor.process(url, title=title) is issued
CallGateway(k) ==
  /\ wpc[k] = "attempt"
  /\ ai_processor
  /\ wpc' = [ wpc EXCEPT ![k] = "inflight" ]
  /\ calls' = [ calls EXCEPT ![cur(k)] = @ + 1 ]
  /\ UNCHANGED << store, ai_processor, other, tasks, timing, discovery, domain_last_request, coord, idx, attempt,
                  last_error, wstats, returned, reached_blacklisted, at_start, saves,
                  blocked_seen, faults >>

\* faulty variant: a link that cannot be processed is written off as failed
NotConfigured_as_failed(k) ==
  /\ wpc[k] = "attempt"
  /\ ~ai_processor
  /\ update_link_status(cur(k), "failed", "AI processor not configured")
  /\ record_result(k, [ link_id |-> cur(k), status |-> "failed",
                        reason |-> "AI processor not configured" ])
  /\ UNCHANGED << processed_content, blacklisted_sites, ai_processor, other, tasks, timing, discovery,
                  domain_last_request, coord, calls, reached_blacklisted, at_start, saves,
                  blocked_seen, faults >>

\* the else branch of "if self.ai_processor": the link is put back to pending
NotConfigured(k) ==
  /\ wpc[k] = "attempt"
  /\ ~ai_processor
  /\ update_link_status(cur(k), "pending", "AI processor not configured")
  /\ record_result(k, [ link_id |-> cur(k), status |-> "skipped",
                        reason |-> "AI processor not configured" ])
  /\ UNCHANGED << processed_content, blacklisted_sites, ai_processor, other, tasks, timing, discovery,
                  domain_last_request, coord, calls, reached_blacklisted, at_start, saves,
                  blocked_seen, faults >>

\* the text last_error gets for an attempt that neither returned nor raised
\* out of the loop: str(e), 'processing returned none', or result['error']
attempt_error(outcome) ==
  CASE outcome = "EXC"  -> "exception"
    [] outcome = "NONE" -> "processing returned none"
    [] OTHER            -> "error"

\* faulty variant: a missing response is taken for a success
after_outcome_none_saved(outcome) ==
  CASE outcome = "BLOCKED"             -> "blk_add"
    [] outcome \in {"SUCCESS", "NONE"} -> "save"
    [] OTHER                           -> "retry"

\* faulty variant: a blocked result is retried like a failure
after_outcome_retry_blocked(outcome) ==
  CASE outcome = "SUCCESS" -> "save"
    [] OTHER               -> "retry"

\* faulty variant: an exception of the gateway is not caught
after_outcome_exc_propagates(outcome) ==
  CASE outcome = "BLOCKED" -> "blk_add"
    [] outcome = "SUCCESS" -> "save"
    [] outcome = "EXC"     -> "raised"
    [] OTHER               -> "retry"

\* where the call of _process_domain goes when the gateway call has
\* returned with the outcome
after_outcome(outcome) ==
  CASE outcome = "BLOCKED" -> "blk_add"
    [] outcome = "SUCCESS" -> "save"
    [] OTHER               -> "retry"

\* the gateway call returns (or raises, or times out)
GatewayReturn(k, outcome) ==
  /\ wpc[k] = "inflight"
  /\ returned' = [ returned EXCEPT ![k] = Append(@, outcome) ]
  /\ blocked_seen' = IF outcome = "BLOCKED"
                     THEN blocked_seen \cup { extract_domain(Urls[cur(k)]) }
                     ELSE blocked_seen
  /\ LET to == after_outcome(outcome)
     IN  IF to = "retry"
         THEN next_attempt(k, attempt_error(outcome))
         ELSE /\ wpc' = [ wpc EXCEPT ![k] = to ]
              /\ UNCHANGED << attempt, last_error >>
  /\ UNCHANGED << store, ai_processor, other, tasks, timing, discovery, domain_last_request, coord, idx, wstats,
                  calls, reached_blacklisted, at_start, saves, faults >>

\* faulty variant: a plain INSERT into a table without the unique constraint
add_blacklisted_site_insert(domain) ==
  blacklisted_sites' = [ blacklisted_sites EXCEPT ![domain] = @ + 1 ]

\* Database.add_blacklisted_site(domain, url, title, reason): INSERT ... ON
\* CONFLICT (domain) DO UPDATE: a new row for a domain that has none, else
\* the columns of the row of the domain are rewritten
add_blacklisted_site(domain) ==
  blacklisted_sites' = [ blacklisted_sites EXCEPT ![domain] = IF @ = 0 THEN 1 ELSE @ ]

\* faulty variant: the entry is keyed by the raw host
AddBlacklist_raw_host(k) ==
  /\ wpc[k] = "blk_add"
  /\ add_blacklisted_site(Urls[cur(k)].host)
  /\ wpc' = [ wpc EXCEPT ![k] = "blk_status" ]
  /\ UNCHANGED << status, error_message, processed_at, processed_content, ai_processor, other, tasks, timing, discovery,
                  domain_last_request, coord, idx, attempt, last_error, wstats,
                  hist, faults >>

\* _handle_blacklisted_link, first write: self.db.add_blacklisted_site
AddBlacklist(k) ==
  /\ wpc[k] = "blk_add"
  /\ add_blacklisted_site(extract_domain(Urls[cur(k)]))
  /\ wpc' = [ wpc EXCEPT ![k] = "blk_status" ]
  /\ UNCHANGED << status, error_message, processed_at, processed_content, ai_processor, other, tasks, timing, discovery,
                  domain_last_request, coord, idx, attempt, last_error, wstats,
                  hist, faults >>

\* _handle_blacklisted_link, second write, and the blocked return
WriteBlocked(k) ==
  /\ wpc[k] = "blk_status"
  /\ update_link_status(cur(k), "blocked", "Reader blocked")
  /\ record_result(k, [ link_id |-> cur(k), status |-> "blocked",
                        reason |-> "Reader blocked" ])
  /\ UNCHANGED << processed_content, blacklisted_sites, ai_processor, other, tasks, timing, discovery,
                  domain_last_request, coord, calls, reached_blacklisted, at_start, saves,
                  blocked_seen, faults >>

\* faulty variant: the content row is not written before the status write
SaveContent_skipped(k) ==
  /\ wpc[k] = "save"
  /\ wpc' = [ wpc EXCEPT ![k] = "complete" ]
  /\ UNCHANGED << store, ai_processor, other, tasks, timing, discovery, domain_last_request, coord,
                  idx, attempt, last_error, wstats, hist, faults >>

\* faulty variant: a plain INSERT into a table without the UNIQUE constraint
save_processed_content_insert(link_id) ==
  processed_content' = [ processed_content EXCEPT ![link_id] = @ + 1 ]

\* Database.save_processed_content: INSERT ... ON CONFLICT (link_id) DO
\* UPDATE: a row is added when the link has none, else its row is replaced
save_processed_content(link_id) ==
  processed_content' = [ processed_content EXCEPT ![link_id] =
                           IF @ = 0 THEN 1 ELSE @ ]

\* self.db.save_processed_content(...): the upsert of the content row
SaveContent(k) ==
  /\ wpc[k] = "save"
  /\ save_processed_content(cur(k))
  /\ saves' = [ saves EXCEPT ![cur(k)] = @ + 1 ]
  /\ wpc' = [ wpc EXCEPT ![k] = "complete" ]
  /\ UNCHANGED << status, error_message, processed_at, blacklisted_sites,
                  ai_processor, other, tasks, timing, discovery, domain_last_request, coord,
                  idx, attempt, last_error, wstats, calls, returned,
                  reached_blacklisted, at_start, blocked_seen, faults >>

\* faulty variant: completed is written but the loop is not left
WriteCompleted_no_return(k) ==
  /\ wpc[k] = "complete"
  /\ update_link_status(cur(k), "completed", "NULL")
  /\ next_attempt(k, last_error[k])
  /\ UNCHANGED << processed_content, blacklisted_sites, ai_processor, other, tasks, timing, discovery,
                  domain_last_request, coord, idx, wstats, hist, faults >>

\* self.db.update_link_status(link_id, 'completed') and the success return
WriteCompleted(k) ==
  /\ wpc[k] = "complete"
  /\ update_link_status(cur(k), "completed", "NULL")
  /\ record_result(k, [ link_id |-> cur(k), status |-> "success",
                        reason |-> "None" ])
  /\ UNCHANGED << processed_content, blacklisted_sites, ai_processor, other, tasks, timing, discovery,
                  domain_last_request, coord, calls, reached_blacklisted, at_start, saves,
                  blocked_seen, faults >>

\* faulty variant: an exhausted link is written back as pending
WriteFailed_requeue(k) ==
  /\ wpc[k] = "exhausted"
  /\ update_link_status(cur(k), "pending", "Max retries exceeded")
  /\ record_result(k, [ link_id |-> cur(k), status |-> "failed",
                        reason |-> IF last_error[k] # "None" THEN last_error[k]
                                   ELSE "Max retries exceeded" ])
  /\ UNCHANGED << processed_content, blacklisted_sites, ai_processor, other, tasks, timing, discovery,
                  domain_last_request, coord, calls, reached_blacklisted, at_start, saves,
                  blocked_seen, faults >>

\* after the loop: status failed with 'Max retries exceeded', failed return
WriteFailed(k) ==
  /\ wpc[k] = "exhausted"
  /\ update_link_status(cur(k), "failed", "Max retries exceeded")
  /\ record_result(k, [ link_id |-> cur(k), status |-> "failed",
                        reason |-> IF last_error[k] # "None" THEN last_error[k]
                                   ELSE "Max retries exceeded" ])
  /\ UNCHANGED << processed_content, blacklisted_sites, ai_processor, other, tasks, timing, discovery,
                  domain_last_request, coord, calls, reached_blacklisted, at_start, saves,
                  blocked_seen, faults >>

\* a store operation inside the try block of _process_single_link raises
\* (get_connection re-raises): "except Exception" takes it as a failed attempt
StoreRaiseCaught(k) ==
  /\ faults < MaxFaults
  /\ \/ wpc[k] \in {"blk_add", "blk_status", "save", "complete"}
     \/ wpc[k] = "attempt" /\ ~ai_processor
  /\ faults' = faults + 1
  /\ next_attempt(k, "store error")
  /\ UNCHANGED << store, ai_processor, other, tasks, timing, discovery, domain_last_request, coord, idx, wstats,
                  hist >>

\* a store operation outside that try block raises: the exception leaves
\* _process_domain and becomes the exception of the future
StoreRaisePropagates(k) ==
  /\ faults < MaxFaults
  /\ wpc[k] \in {"check", "skip", "mark", "exhausted"}
  /\ faults' = faults + 1
  /\ wpc' = [ wpc EXCEPT ![k] = "raised" ]
  /\ UNCHANGED << store, ai_processor, other, tasks, timing, discovery, domain_last_request, coord, idx, attempt,
                  last_error, wstats, hist >>

\* ------------------------------------------------------------------------
\* Discovery: NewsSearchModule._process_urls(results, task_name), one run per
\* member of Discoverers.  The items of results are drawn one at a time.
\* ------------------------------------------------------------------------
\* the run is past a valid item
past_item(r) ==
  /\ seen' = [ seen EXCEPT ![r] = @ \cup { url_hash_value(r) } ]
  /\ dpc' = [ dpc EXCEPT ![r] = "next" ]

\* _process_urls is entered: the counters and the list are fresh
StartDiscovery(r) ==
  /\ dpc[r] = "none"
  /\ dpc' = [ dpc EXCEPT ![r] = "next" ]
  /\ summary' = [ summary EXCEPT ![r] = ZeroSummary ]
  /\ UNCHANGED << store, news_links, title, item, taken, seen, ai_processor, other, tasks, timing,
                  domain_last_request, coord, worker, hist, faults >>

\* faulty variant: the url of the item is not validated
NextItem_unvalidated(r, it) ==
  /\ dpc[r] = "next"
  /\ taken[r] < MaxItems
  /\ item' = [ item EXCEPT ![r] = it ]
  /\ taken' = [ taken EXCEPT ![r] = @ + 1 ]
  /\ dpc' = [ dpc EXCEPT ![r] = "exists" ]
  /\ summary' = summary
  /\ UNCHANGED << store, news_links, title, seen, ai_processor, other, tasks, timing,
                  domain_last_request, coord, worker, hist, faults >>

\* the head of the loop: the next item is taken and validated; an invalid
\* url is counted and skipped, no store operation is made for it
NextItem(r, it) ==
  /\ dpc[r] = "next"
  /\ taken[r] < MaxItems
  /\ item' = [ item EXCEPT ![r] = it ]
  /\ taken' = [ taken EXCEPT ![r] = @ + 1 ]
  /\ IF is_valid_url(it.url)
     THEN /\ dpc' = [ dpc EXCEPT ![r] = "exists" ]
          /\ summary' = summary
     ELSE /\ dpc' = dpc
          /\ summary' = [ summary EXCEPT ![r].invalid = @ + 1 ]
  /\ UNCHANGED << store, news_links, title, seen, ai_processor, other, tasks, timing,
                  domain_last_request, coord, worker, hist, faults >>

\* results is exhausted: the summary is returned
ReturnSummary(r) ==
  /\ dpc[r] = "next"
  /\ dpc' = [ dpc EXCEPT ![r] = "done" ]
  /\ UNCHANGED << store, news_links, title, item, taken, seen, summary,
                  ai_processor, other, tasks, timing, domain_last_request, coord, worker, hist, faults >>

\* Database.url_exists(url_hash)
url_exists(url_hash) == Rows(url_hash) > 0

\* if self.db.url_exists(url_hash_value): a duplicate without a title is
\* counted at once, one with a title goes to the title update first
CheckExists(r) ==
  /\ dpc[r] = "exists"
  /\ IF url_exists(url_hash_value(r))
     THEN IF item[r].title \notin {"NULL", ""}
          THEN /\ dpc' = [ dpc EXCEPT ![r] = "backfill" ]
               /\ UNCHANGED << seen, summary >>
          ELSE /\ past_item(r)
               /\ summary' = [ summary EXCEPT ![r].duplicates = @ + 1 ]
     ELSE /\ dpc' = [ dpc EXCEPT ![r] = "insert" ]
          /\ UNCHANGED << seen, summary >>
  /\ UNCHANGED << store, news_links, title, item, taken, ai_processor, other, tasks, timing,
                  domain_last_request, coord, worker, hist, faults >>

\* faulty variant: the WHERE clause does not look at the stored title
update_news_link_title_overwrite(url_hash, new_title) ==
  title' = IF new_title \in {"NULL", ""} THEN title
           ELSE [ l \in Links |->
                    IF l = url_hash /\ url_exists(l) THEN new_title ELSE title[l] ]

\* Database.update_news_link_title: nothing for an empty title; else one
\* UPDATE of the rows with the url_hash whose title is NULL or ''
update_news_link_title(url_hash, new_title) ==
  title' = IF new_title \in {"NULL", ""} THEN title
           ELSE [ l \in Links |->
                    IF l = url_hash /\ url_exists(l) /\ title[l] \in {"NULL", ""}
                    THEN new_title ELSE title[l] ]

\* the duplicate branch for an item with a title
BackfillTitle(r) ==
  /\ dpc[r] = "backfill"
  /\ update_news_link_title(url_hash_value(r), item[r].title)
  /\ past_item(r)
  /\ summary' = [ summary EXCEPT ![r].duplicates = @ + 1 ]
  /\ UNCHANGED << store, news_links, item, taken, ai_processor, other, tasks, timing,
                  domain_last_request, coord, worker, hist, faults >>

\* faulty variant: a plain INSERT, the unique violation is raised
ON_CONFLICT_absent == "RAISE"

\* the conflict clause of the INSERT of insert_news_link
ON_CONFLICT == "DO NOTHING"

\* faulty variant: url_hash has no unique constraint, a row is always added
insert_news_link_not_unique(r) ==
  /\ dpc[r] = "insert"
  /\ news_links' = Append(news_links, url_hash_value(r))
  /\ status' = [ status EXCEPT ![url_hash_value(r)] = "pending" ]
  /\ title' = [ title EXCEPT ![url_hash_value(r)] = item[r].title ]
  /\ past_item(r)
  /\ summary' = [ summary EXCEPT
                    ![r].new_links = @ + 1,
                    ![r].urls = Append(@, url_hash_value(r)) ]
  /\ UNCHANGED << error_message, processed_at, processed_content,
                  blacklisted_sites, item, taken, ai_processor, other, tasks, timing,
                  domain_last_request, coord, worker, hist, faults >>

\* Database.insert_news_link and the "if link_id" that follows: a new row
\* (status pending, the other columns NULL) whose id is counted and listed,
\* or, for a url_hash that has a row, nothing and no id
insert_news_link(r) ==
  /\ dpc[r] = "insert"
  /\ IF ~url_exists(url_hash_value(r))
     THEN /\ news_links' = Append(news_links, url_hash_value(r))
          /\ status' = [ status EXCEPT ![url_hash_value(r)] = "pending" ]
          /\ title' = [ title EXCEPT ![url_hash_value(r)] = item[r].title ]
          /\ past_item(r)
          /\ summary' = [ summary EXCEPT
                            ![r].new_links = @ + 1,
                            ![r].urls = Append(@, url_hash_value(r)) ]
     ELSE IF ON_CONFLICT = "DO NOTHING"
          THEN /\ past_item(r)
               /\ UNCHANGED << news_links, status, title, summary >>
          ELSE /\ dpc' = [ dpc EXCEPT ![r] = "raised" ]
               /\ UNCHANGED << news_links, status, title, summary, seen >>
  /\ UNCHANGED << error_message, processed_at, processed_content,
                  blacklisted_sites, item, taken, ai_processor, other, tasks, timing,
                  domain_last_request, coord, worker, hist, faults >>

\* ------------------------------------------------------------------------
\* Specifications
\* ------------------------------------------------------------------------
\* the steps of a coordinator run that has started
Work ==
  \/ \E k \in Keys : Dispatch(k)
  \/ \E k \in Keys : ApplyRateLimit(k)
  \/ \E k \in Keys : CheckBlacklist(k)
  \/ \E k \in Keys : SkipBlacklisted(k)
  \/ \E k \in Keys : MarkProcessing(k)
  \/ \E k \in Keys : CallGateway(k)
  \/ \E k \in Keys : NotConfigured(k)
  \/ \E k \in Keys, outcome \in Outcomes : GatewayReturn(k, outcome)
  \/ \E k \in Keys : AddBlacklist(k)
  \/ \E k \in Keys : WriteBlocked(k)
  \/ \E k \in Keys : SaveContent(k)
  \/ \E k \in Keys : WriteCompleted(k)
  \/ \E k \in Keys : WriteFailed(k)
  \/ \E k \in Keys : Collect(k)
  \/ Return

\* Spec: three links of two domains, up to MaxRuns coordinator runs from any
\* of the entry points, the administrative requeue between runs, and a store
\* that never raises
Init == InitWith({1, 2, 3}, BOOLEAN)

Next ==
  \/ \E limit \in 1 .. Len(Urls) : process_pending_links(limit)
  \/ \E limit \in 1 .. Len(Urls) : reprocess_task_links(limit)
  \/ reset_links
  \/ Work

Spec == Init /\ [][Next]_vars

\* SpecFault: one coordinator run over the same links in which store
\* operations may raise, at most MaxFaults times
first_run(limit) ==
  /\ runs = 0
  /\ process_pending_links(limit)

NextFault ==
  \/ \E limit \in 1 .. Len(Urls) : first_run(limit)
  \/ Work
  \/ \E k \in Keys : StoreRaiseCaught(k)
  \/ \E k \in Keys : StoreRaisePropagates(k)

SpecFault == Init /\ [][NextFault]_vars

\* SpecRun: one coordinator run over the same links with a store that never
\* raises
NextRun ==
  \/ \E limit \in 1 .. Len(Urls) : first_run(limit)
  \/ Work

SpecRun == Init /\ [][NextRun]_vars

\* SpecFaultFair: the run of SpecFault with its threads scheduled and its
\* gateway and store calls returning: while a step of the run is possible,
\* a step of the run is eventually taken
FairRun == WF_vars(Work)

SpecFaultFair == SpecFault /\ FairRun

\* SpecPool: five links of four domains, more than the pool has threads, and a worker
\* without a gateway (the fallback ProcessorWorker() of frontend/server.py)
InitPool == InitWith(Links, {FALSE})

NextPool ==
  \/ \E limit \in 1 .. Len(Urls) : process_pending_links(limit)
  \/ \E k \in Keys : Dispatch(k)
  \/ \E k \in Keys : ApplyRateLimit(k)
  \/ \E k \in Keys : CheckBlacklist(k)
  \/ \E k \in Keys : MarkProcessing(k)
  \/ \E k \in Keys : NotConfigured(k)
  \/ \E k \in Keys : Collect(k)
  \/ Return

SpecPool == InitPool /\ [][NextPool]_vars

\* the pool threads and the coordinator thread are scheduled: a step of a
\* started run that stays possible is eventually taken (nothing is assumed
\* about when, or whether, a caller starts a run)
FairPool ==
  /\ \A k \in Keys :
       /\ WF_vars(Dispatch(k))
       /\ WF_vars(ApplyRateLimit(k))
       /\ WF_vars(CheckBlacklist(k))
       /\ WF_vars(MarkProcessing(k))
       /\ WF_vars(NotConfigured(k))
       /\ WF_vars(Collect(k))
  /\ WF_vars(Return)

SpecPoolFair == SpecPool /\ FairPool

\* SpecScenario: one run with a gateway that answers every call for
\* www.a/1 with a success, every call for a/2 with a failure of any kind, and
\* every call for b/1 with blocked
ScenarioOutcomes(l) ==
  CASE l = 1 -> {"SUCCESS"}
    [] l = 2 -> {"FAILURE", "NONE", "EXC"}
    [] l = 3 -> {"BLOCKED"}
    [] OTHER -> {}

InitScenario == InitWith({1, 2, 3}, {TRUE})

NextScenario ==
  \/ \E limit \in 1 .. Len(Urls) : first_run(limit)
  \/ \E k \in Keys : Dispatch(k)
  \/ \E k \in Keys : ApplyRateLimit(k)
  \/ \E k \in Keys : CheckBlacklist(k)
  \/ \E k \in Keys : MarkProcessing(k)
  \/ \E k \in Keys : CallGateway(k)
  \/ \E k \in Keys, outcome \in Outcomes :
        /\ wpc[k] = "inflight"
        /\ outcome \in ScenarioOutcomes(cur(k))
        /\ GatewayReturn(k, outcome)
  \/ \E k \in Keys : AddBlacklist(k)
  \/ \E k \in Keys : WriteBlocked(k)
  \/ \E k \in Keys : SaveContent(k)
  \/ \E k \in Keys : WriteCompleted(k)
  \/ \E k \in Keys : WriteFailed(k)
  \/ \E k \in Keys : Collect(k)
  \/ Return

SpecScenario == InitScenario /\ [][NextScenario]_vars

\* SpecIngest: the two discovery runs on a store that has the rows of three
\* links; every run gets up to MaxItems items
NextIngest ==
  \/ \E r \in Discoverers : StartDiscovery(r)
  \/ \E r \in Discoverers, it \in Items : NextItem(r, it)
  \/ \E r \in Discoverers : CheckExists(r)
  \/ \E r \in Discoverers : BackfillTitle(r)
  \/ \E r \in Discoverers : insert_news_link(r)
  \/ \E r \in Discoverers : ReturnSummary(r)

InitIngest == InitWith({1, 2, 3}, {TRUE})

SpecIngest == InitIngest /\ [][NextIngest]_vars

\* SpecRate: the five links of four domains, runs of process_pending_links
\* with the clock: _apply_rate_limit takes the time its sleep takes, a
\* gateway call succeeds, and MaxTime seconds are followed
InitRate == InitWith({1, 2, 3}, BOOLEAN) \/ InitWith({3, 4}, {TRUE})

NextRate ==
  \/ \E limit \in 1 .. Len(Urls) : process_pending_links(limit)
  \/ \E k \in Keys : Dispatch(k)
  \/ \E k \in Keys : RateLimitEnter(k)
  \/ \E k \in Keys : RateLimitReturn(k)
  \/ \E k \in Keys : CheckBlacklist(k)
  \/ \E k \in Keys : MarkProcessing(k)
  \/ \E k \in Keys : CallGateway(k)
  \/ \E k \in Keys : NotConfigured(k)
  \/ \E k \in Keys : GatewayReturn(k, "SUCCESS")
  \/ \E k \in Keys : SaveContent(k)
  \/ \E k \in Keys : WriteCompleted(k)
  \/ \E k \in Keys : Collect(k)
  \/ Return
  \/ Tick

SpecRate == InitRate /\ [][NextRate]_vars

\* SpecNoGateway: a worker without a gateway, and a store in which the five
\* links are pending, or in which www.a/1 was blocked before, so that a is
\* blacklisted, and the other four are pending
InitNoGateway ==
  /\ blacklisted_sites \in { [ d \in Keys |-> 0 ],
                            [ d \in Keys |-> IF d = << "a" >> THEN 1 ELSE 0 ] }
  /\ status = [ l \in Links |-> IF l = 1 /\ is_domain_blacklisted(<< "a" >>)
                                 THEN "blocked" ELSE "pending" ]
  /\ error_message = [ l \in Links |-> IF status[l] = "blocked"
                                        THEN "Reader blocked" ELSE "NULL" ]
  /\ processed_content = [ l \in Links |-> 0 ]
  /\ processed_at = [ l \in Links |-> "NULL" ]
  /\ news_links = AscSeq(Links)
  /\ title = [ l \in Links |-> "NULL" ]
  /\ Constructed({FALSE})

NextNoGateway ==
  \/ \E limit \in 1 .. Len(Urls) : process_pending_links(limit)
  \/ \E k \in Keys : Dispatch(k)
  \/ \E k \in Keys : ApplyRateLimit(k)
  \/ \E k \in Keys : CheckBlacklist(k)
  \/ \E k \in Keys : SkipBlacklisted(k)
  \/ \E k \in Keys : MarkProcessing(k)
  \/ \E k \in Keys : NotConfigured(k)
  \/ \E k \in Keys : Collect(k)
  \/ Return

SpecNoGateway == InitNoGateway /\ [][NextNoGateway]_vars

\* SpecFetch: a store whose rows were inserted in any order and are pending,
\* completed or failed, and one call of process_pending_links with any
\* limit, up to the submission of the tasks
Orders ==
  { s \in UNION { [ 1 .. n -> Links ] : n \in 0 .. Len(Urls) } :
      \A i, j \in DOMAIN s : i # j => s[i] # s[j] }

InitFetch ==
  /\ news_links \in Orders
  /\ status \in [ Links -> {"pending", "completed", "failed", NoRow} ]
  /\ \A l \in Links : status[l] = NoRow <=> l \notin Range(news_links)
  /\ error_message = [ l \in Links |-> IF status[l] = "failed"
                                        THEN "Max retries exceeded" ELSE "NULL" ]
  /\ processed_content = [ l \in Links |-> IF status[l] = "completed" THEN 1 ELSE 0 ]
  /\ blacklisted_sites = [ d \in Keys |-> 0 ]
  /\ processed_at = [ l \in Links |-> IF status[l] \in {"completed", "failed"}
                                       THEN "CURRENT_TIMESTAMP" ELSE "NULL" ]
  /\ title = [ l \in Links |-> "NULL" ]
  /\ Constructed({TRUE})

NextFetch == \E limit \in 1 .. Len(Urls) : first_run(limit)

SpecFetch == InitFetch /\ [][NextFetch]_vars

\* ------------------------------------------------------------------------
\* Vocabulary of the properties
\* ------------------------------------------------------------------------
domain_of(l) == extract_domain(Urls[l])

Last(s) == s[Len(s)]

\* the gateway calls in flight for a domain: the workers that are inside
\* ai_processor.process for a link of that domain
InFlight(d) == { k \in Keys : wpc[k] = "inflight" /\ domain_of(cur(k)) = d }

\* the worker of key k is past link l: its loop iteration for l has ended
Past(k, l) ==
  \/ wpc[k] = "done" /\ l \in Range(domain_groups[k])
  \/ /\ wpc[k] \notin {"none", "queued", "done"}
     /\ \E i \in 1 .. (idx[k] - 1) : domain_groups[k][i] = l

\* this step ends the loop iteration of worker k for the link it is at
Finishes(k) == Len(wstats'[k].details) = Len(wstats[k].details) + 1

\* the status transitions of the link state machine
WorkerEdges ==
  { << "pending", "processing" >>, << "processing", "completed" >>,
    << "processing", "failed" >>, << "processing", "blocked" >>,
    << "pending", "blocked" >> }

RECURSIVE SumOver(_, _)
SumOver(f, S) ==
  IF S = {} THEN 0
  ELSE LET x == CHOOSE y \in S : TRUE IN f[x] + SumOver(f, S \ {x})

\* part is a contiguous piece of whole
IsPieceOf(part, whole) ==
  \E off \in 0 .. (Len(whole) - Len(part)) :
    \A i \in 1 .. Len(part) : whole[off + i] = part[i]

\* ------------------------------------------------------------------------
\* C1.  In a coordinator run, at every moment and for every domain, at most
\* one gateway call is in flight for a link of that domain.
\* ------------------------------------------------------------------------
C1_OneCallPerDomain ==
  \A d \in Domains : Cardinality(InFlight(d)) <= 1

\* a call is in flight for the second link of a domain while a call for
\* another domain is in flight too
C1_Witness ==
  \E k1, k2 \in Keys :
    /\ k1 # k2
    /\ wpc[k1] = "inflight" /\ idx[k1] = 2
    /\ wpc[k2] = "inflight"

C4_BlacklistShortCircuit ==
  \A l \in reached_blacklisted :
    /\ calls[l] = 0
    /\ status[l] \in {at_start[l], "blocked"}
    /\ status[l] # "processing"
    /\ \A k \in Keys :
         Past(k, l) =>
           /\ status[l] = "blocked"
           /\ error_message[l] = "Domain blacklisted"
           /\ \E i \in DOMAIN wstats[k].details :
                wstats[k].details[i] = [ link_id |-> l, status |-> "blocked",
                                         reason |-> "Domain blacklisted" ]
           /\ wstats[k].skipped =
                Cardinality({ i \in DOMAIN wstats[k].details :
                                wstats[k].details[i].status \in {"blocked", "skipped"} })

\* a worker is past a link that it reached with the domain blacklisted
C4_Witness ==
  \E l \in reached_blacklisted, k \in Keys :
    Past(k, l) /\ status[l] = "blocked" /\ calls[l] = 0

\* ------------------------------------------------------------------------
\* C5.  No link gets more than MAX_RETRIES gateway calls in a run, and when
\* the worker ends its work on a link whose calls all came back as failures
\* (a result without success, None, or an exception), it has issued exactly
\* MAX_RETRIES calls for the link and the step writes status failed.
\* ------------------------------------------------------------------------
C5_RetryExhaustion ==
  [][ /\ \A l \in Links : calls'[l] <= MAX_RETRIES
      /\ \A k \in Keys :
           ( /\ Finishes(k)
             /\ returned[k] # << >>
             /\ \A i \in DOMAIN returned[k] :
                  returned[k][i] \in {"FAILURE", "NONE", "EXC"} ) =>
             /\ Len(returned[k]) = MAX_RETRIES
             /\ calls[cur(k)] = MAX_RETRIES
             /\ status[cur(k)] = "processing"
             /\ status'[cur(k)] = "failed"
             /\ Last(wstats'[k].details).status = "failed"
             /\ wstats'[k].failed = wstats[k].failed + 1
    ]_vars

\* a link is failed after MAX_RETRIES calls, the last of which returned a
\* result without success
C5_Witness ==
  \E k \in Keys, l \in Links :
    /\ Past(k, l)
    /\ status[l] = "failed"
    /\ calls[l] = MAX_RETRIES
    /\ \E i \in DOMAIN wstats[k].details :
         wstats[k].details[i] = [ link_id |-> l, status |-> "failed",
                                  reason |-> "error" ]

C8_BoundedPool ==
  /\ \A k \in Keys : (wpc[k] = "queued") ~> (wpc[k] # "queued")
  /\ [][ /\ Cardinality(Active') <= MAX_CONCURRENT_DOMAINS
         /\ \A k \in Keys :
              (cpc = "running" /\ wpc[k] = "queued" /\ wpc'[k] # "queued") =>
                /\ Cardinality(Active) < MAX_CONCURRENT_DOMAINS
                /\ k = Head(queue)
         /\ (cpc = "running" /\ cpc' = "idle") =>
              /\ queue' = << >>
              /\ RunKeys' = { extract_domain(Urls[l]) : l \in Range(batch') }
              /\ \A k \in RunKeys' : wpc'[k] \in {"done", "raised"}
       ]_vars

\* all pool threads are busy and a fourth domain of the batch is waiting
C8_Witness ==
  /\ Cardinality(Active) = MAX_CONCURRENT_DOMAINS
  /\ Len(queue) = 1
  /\ Cardinality(RunKeys) = MAX_CONCURRENT_DOMAINS + 1

\* ------------------------------------------------------------------------
\* C9.  The aggregate is at every moment the merge of the results of the
\* domain workers that were collected and had returned: a worker that ended
\* with an exception contributes nothing to total, success, failed, skipped,
\* by_domain or details, the results of the other domains are in it as the
\* workers returned them, and when every future has ended the coordinator
\* can go on and return.
\* ------------------------------------------------------------------------
C9_FailureIsolation ==
  LET merged == { k \in collected : wpc[k] = "done" }
      lost   == { k \in RunKeys : wpc[k] = "raised" }
  IN  /\ DOMAIN stats.by_domain = merged
      /\ \A k \in merged : stats.by_domain[k] = wstats[k]
      /\ stats.total = SumOver([ k \in Keys |-> wstats[k].total ], merged)
      /\ stats.success = SumOver([ k \in Keys |-> wstats[k].success ], merged)
      /\ stats.failed = SumOver([ k \in Keys |-> wstats[k].failed ], merged)
      /\ stats.skipped = SumOver([ k \in Keys |-> wstats[k].skipped ], merged)
      /\ Len(stats.details) = SumOver([ k \in Keys |-> Len(wstats[k].details) ], merged)
      /\ \A k \in merged : IsPieceOf(wstats[k].details, stats.details)
      /\ \A i \in DOMAIN stats.details, k \in lost :
           stats.details[i].link_id \notin Range(domain_groups[k])
      /\ (cpc = "running" /\ \A k \in RunKeys : wpc[k] \in {"done", "raised"}) =>
           \/ ENABLED Return
           \/ \E k \in RunKeys : ENABLED Collect(k)
      /\ (cpc = "idle" /\ runs > 0) => collected = RunKeys

\* the coordinator has returned from a run in which the worker of a domain
\* raised after it had finished one link, and the aggregate is the result of
\* the other domain
C9_Witness ==
  /\ cpc = "idle"
  /\ \E k1, k2 \in RunKeys :
       /\ wpc[k1] = "raised" /\ wstats[k1].details # << >>
       /\ wpc[k2] = "done" /\ wstats[k2].details # << >>
       /\ stats.total = wstats[k2].total
       /\ stats.details = wstats[k2].details

\* ------------------------------------------------------------------------
\* C10.  A gateway call that raises (or times out) is handled like a failed
\* attempt: the step uses up one attempt and leads to the next attempt or,
\* after the last one, to the failed write, it changes no status and no
\* result, and no domain worker ever ends with an exception; after the
\* failed write the worker goes on with the next link of its domain.
\* ------------------------------------------------------------------------
C10_GatewayExceptionContained ==
  [][ \A k \in Keys :
        /\ wpc'[k] # "raised"
        /\ ( /\ wpc[k] = "inflight"
             /\ Len(returned'[k]) = Len(returned[k]) + 1
             /\ Last(returned'[k]) = "EXC" ) =>
             /\ attempt'[k] = attempt[k] + 1
             /\ wpc'[k] = IF attempt[k] < MAX_RETRIES THEN "attempt" ELSE "exhausted"
             /\ status' = status
             /\ wstats' = wstats
        /\ ( /\ Finishes(k)
             /\ returned[k] # << >>
             /\ Last(returned[k]) = "EXC" ) =>
             /\ status'[cur(k)] = "failed"
             /\ idx[k] < Len(domain_groups[k]) =>
                  (wpc'[k] = "rate" /\ idx'[k] = idx[k] + 1)
             /\ idx[k] = Len(domain_groups[k]) => wpc'[k] = "done"
    ]_vars

\* a worker is at the second link of its domain after the calls for the
\* first one raised on every attempt
C10_Witness ==
  \E k \in Keys :
    /\ idx[k] = 2
    /\ wpc[k] \notin {"none", "queued"}
    /\ calls[domain_groups[k][1]] = MAX_RETRIES
    /\ status[domain_groups[k][1]] = "failed"
    /\ wstats[k].details[1].reason = "exception"

\* ------------------------------------------------------------------------
\* C11.  A domain worker that returns has produced exactly one outcome
\* record for every link it was given, in the order of the links: details
\* is as long as the domain group, its i-th record is for the i-th link,
\* total is the number of links and success + failed + skipped = total.
\* This holds also when store operations raised and were caught.
\* ------------------------------------------------------------------------
C11_OneRecordPerLink ==
  \A k \in RunKeys :
    wpc[k] = "done" =>
      /\ Len(wstats[k].details) = Len(domain_groups[k])
      /\ \A i \in DOMAIN domain_groups[k] :
           wstats[k].details[i].link_id = domain_groups[k][i]
      /\ wstats[k].total = Len(domain_groups[k])
      /\ wstats[k].success + wstats[k].failed + wstats[k].skipped = wstats[k].total

\* a worker has returned from a domain of two links, one of which it found
\* blacklisted, after a store operation had raised
C11_Witness ==
  \E k \in RunKeys :
    /\ wpc[k] = "done"
    /\ Len(domain_groups[k]) = 2
    /\ wstats[k].skipped >= 1
    /\ wstats[k].details[2].reason = "Domain blacklisted"
    /\ faults > 0

\* ------------------------------------------------------------------------
\* C12.  The aggregate a coordinator run returns is the merge of its
\* by_domain entries: total, success, failed and skipped are the sums of
\* these fields over the entries, details consists of the detail lists of
\* the entries, each as one piece, and is total long, and when no domain
\* worker raised total is the size of the batch.
\* ------------------------------------------------------------------------
C12_AggregateIsMerge ==
  (cpc = "idle" /\ runs > 0) =>
    LET by == stats.by_domain
    IN  /\ stats.total = SumOver([ k \in DOMAIN by |-> by[k].total ], DOMAIN by)
        /\ stats.success = SumOver([ k \in DOMAIN by |-> by[k].success ], DOMAIN by)
        /\ stats.failed = SumOver([ k \in DOMAIN by |-> by[k].failed ], DOMAIN by)
        /\ stats.skipped = SumOver([ k \in DOMAIN by |-> by[k].skipped ], DOMAIN by)
        /\ Len(stats.details) =
             SumOver([ k \in DOMAIN by |-> Len(by[k].details) ], DOMAIN by)
        /\ \A k \in DOMAIN by : IsPieceOf(by[k].details, stats.details)
        /\ Len(stats.details) = stats.total
        /\ (\A k \in RunKeys : wpc[k] # "raised") =>
             /\ stats.total = Len(batch)
             /\ { stats.details[i].link_id : i \in DOMAIN stats.details } = Range(batch)

\* a run over three links of two domains has returned the merge of two
\* domain results, the shorter of which was collected first
C12_Witness ==
  /\ cpc = "idle"
  /\ Len(batch) = 3
  /\ Cardinality(DOMAIN stats.by_domain) = 2
  /\ stats.total = 3
  /\ Len(stats.details) = 3
  /\ \E k \in DOMAIN stats.by_domain :
       Len(stats.by_domain[k].details) = 1 /\ stats.details[1] = stats.by_domain[k].details[1]

\* ------------------------------------------------------------------------
\* C13.  A run over the batch www.a/1, a/2, b/1 in which the gateway answers
\* www.a/1 with a success on the first attempt, fails every attempt for a/2
\* and reports b/1 blocked on the first attempt returns total 3, success 1,
\* failed 1, skipped 1; b has a blacklist entry afterwards and exactly one
\* gateway call was made for b/1.
\* ------------------------------------------------------------------------
C13_Scenario ==
  (cpc = "idle" /\ runs > 0 /\ Range(batch) = {1, 2, 3}) =>
    /\ stats.total = 3
    /\ stats.success = 1
    /\ stats.failed = 1
    /\ stats.skipped = 1
    /\ is_domain_blacklisted(<<"b">>)
    /\ calls[3] = 1
    /\ calls[1] = 1
    /\ calls[2] = MAX_RETRIES

\* the run of the scenario has returned
C13_Witness ==
  /\ cpc = "idle" /\ runs > 0 /\ Range(batch) = {1, 2, 3}
  /\ status = [ l \in Links |-> CASE l = 1 -> "completed" [] l = 2 -> "failed"
                                   [] l = 3 -> "blocked" [] OTHER -> NoRow ]
  /\ stats.total = 3

\* ------------------------------------------------------------------------
\* C14.  In every reachable state a completed link has a processed_content
\* row, and so has the link of a worker that is about to write completed:
\* the upsert of the content is committed before the status write, also
\* when store operations raise in between.
\* ------------------------------------------------------------------------
C14_ContentBeforeCompleted ==
  /\ \A l \in Links : status[l] = "completed" => processed_content[l] > 0
  /\ \A k \in Keys : wpc[k] = "complete" => processed_content[cur(k)] > 0

\* a link is completed on its second attempt, in a run in which a store
\* operation had raised
C14_Witness ==
  \E l \in Links :
    /\ status[l] = "completed"
    /\ calls[l] = 2
    /\ faults > 0
    /\ processed_content[l] > 0

\* ------------------------------------------------------------------------
\* C15 as stated: when a store write has failed after a link was set to
\* processing, the link is left retryable: once the domain worker has
\* finished with the link (it went on to the next link, it returned, or it
\* ended with the exception), the status of the link is not processing.
\* ------------------------------------------------------------------------
C15_LeftRetryable ==
  \A k \in RunKeys, l \in Links :
    ( /\ faults > 0
      /\ \/ Past(k, l)
         \/ wpc[k] = "raised" /\ cur(k) = l ) =>
      status[l] # "processing"

\* ------------------------------------------------------------------------
\* C16 as stated: when all attempts for a link are used up without a
\* success or a blocked result, the link is set to failed and the
\* error_message stored on it is the error text of the last failed attempt.
\* ------------------------------------------------------------------------
C16_LastErrorStored ==
  [][ \A k \in Keys :
        (wpc[k] = "exhausted" /\ Finishes(k)) =>
          /\ status'[cur(k)] = "failed"
          /\ error_message'[cur(k)] = last_error[k]
    ]_vars

\* ------------------------------------------------------------------------
\* C17 as stated: update_link_status stamps processed_at for each of the
\* terminal statuses completed, failed and blocked, and leaves processed_at
\* as it is for a transition to processing.
\* ------------------------------------------------------------------------
C17_TerminalStamped ==
  [][ \A l \in Links :
        (cpc = "running" /\ status'[l] # status[l]) =>
          /\ status'[l] \in Terminal => processed_at'[l] = "CURRENT_TIMESTAMP"
          /\ status'[l] = "processing" => processed_at'[l] = processed_at[l]
    ]_vars

\* ------------------------------------------------------------------------
\* Vocabulary of the discovery properties
\* ------------------------------------------------------------------------
\* this step ends the work of run r on a valid item
EndsItem(r) == dpc[r] \in {"exists", "backfill", "insert"} /\ dpc'[r] = "next"

\* this step is the insert_news_link call of run r
Inserts(r) == dpc[r] = "insert" /\ dpc'[r] # "insert"

C19_FingerprintUnique ==
  /\ \A i, j \in DOMAIN news_links : news_links[i] = news_links[j] => i = j
  /\ \A l \in Links : (status[l] # NoRow) <=> (Rows(l) = 1)
  /\ \A r \in Discoverers : dpc[r] # "raised"

\* both runs found no row for d/1; one has inserted it and the other is
\* about to insert it
C19_Witness ==
  \E r1, r2 \in Discoverers :
    /\ r1 # r2
    /\ dpc[r1] = "insert" /\ url_hash_value(r1) = 5
    /\ summary[r2].urls = << 5 >>
    /\ summary[r2].duplicates = 0
    /\ Rows(5) = 1

\* ------------------------------------------------------------------------
\* C20.  update_news_link_title changes the title of a link only when the
\* stored title is NULL or empty, and then to the supplied title; a link
\* that has a title keeps it, a duplicate item without a title changes
\* nothing, and neither changes any other link or any other column.
\* ------------------------------------------------------------------------
C20_BackfillOnlyEmpty ==
  [][ \A r \in Discoverers :
        /\ (dpc[r] = "backfill" /\ EndsItem(r)) =>
             /\ title[url_hash_value(r)] \in {"NULL", ""} =>
                  title'[url_hash_value(r)] = item[r].title
             /\ title[url_hash_value(r)] \notin {"NULL", ""} => title' = title
             /\ \A l \in Links \ { url_hash_value(r) } : title'[l] = title[l]
             /\ UNCHANGED << store, news_links >>
        /\ (dpc[r] = "exists" /\ EndsItem(r)) =>
             /\ item[r].title \in {"NULL", ""}
             /\ UNCHANGED << store, news_links, title >>
        /\ \A l \in Links :
             (status[l] # NoRow /\ title'[l] # title[l]) =>
               (title[l] \in {"NULL", ""} /\ title'[l] \notin {"NULL", ""})
    ]_vars

\* the title of b/1, which was NULL, has been set, and a run is past a
\* duplicate item with the title t2 for d/1, whose title is still t1
C20_Witness ==
  /\ title[3] = "t1"
  /\ title[5] = "t1"
  /\ \E r \in Discoverers :
       /\ dpc[r] = "next"
       /\ item[r].title = "t2"
       /\ url_hash_value(r) \in seen[r]
       /\ summary[r].duplicates >= 1

\* the place of the row of link l in the order of insertion: a larger place
\* is a later discovered_at
Pos(l) == CHOOSE i \in DOMAIN news_links : news_links[i] = l

\* the place of link l in the batch of the run
BatchPos(l) == CHOOSE i \in DOMAIN batch : batch[i] = l

\* ------------------------------------------------------------------------
\* C21: get_pending_links(limit) returns only links whose status is
\* pending, at most limit of them and none twice, the most recently
\* discovered first; a pending link is left out only when limit links that
\* were discovered later are returned, so with more than limit pending links
\* the result is the limit most recent ones.  The batch of a
\* process_pending_links run is such a result.
\* ------------------------------------------------------------------------
C21_PendingFetch ==
  /\ \A limit \in 1 .. Len(Urls) :
       LET r == get_pending_links(limit)
           pending == { l \in Links : status[l] = "pending" }
       IN  /\ \A i \in DOMAIN r : r[i] \in pending
           /\ Len(r) <= limit
           /\ \A i, j \in DOMAIN r : i < j => Pos(r[i]) > Pos(r[j])
           /\ Len(r) = (IF Cardinality(pending) < limit THEN Cardinality(pending)
                        ELSE limit)
           /\ \A l \in pending \ Range(r) :
                /\ Len(r) = limit
                /\ \A i \in DOMAIN r : Pos(r[i]) > Pos(l)
  /\ (runs = 1 /\ kind = "pending") =>
       /\ \A i \in DOMAIN batch : at_start[batch[i]] = "pending"
       /\ \A i, j \in DOMAIN batch : i < j => Pos(batch[i]) > Pos(batch[j])
       /\ \A l \in Links :
            (at_start[l] = "pending" /\ l \notin Range(batch)) =>
              \A i \in DOMAIN batch : Pos(batch[i]) > Pos(l)

\* a fetch with limit 2 while three links are pending: the two most recent
\* pending rows, which are neither the largest ids nor the latest rows
C21_Witness ==
  /\ runs = 1
  /\ news_links = << 2, 3, 4, 1 >>
  /\ at_start[4] = "failed"
  /\ at_start[2] = "pending"
  /\ batch = << 1, 3 >>

\* ------------------------------------------------------------------------
\* C22: _group_by_domain is a disjoint cover of its input that keeps the
\* order: every link of the batch is in exactly one group, at one place;
\* every member of a group is a link of the batch whose extracted domain is
\* the key of the group; and two links of one group are in the order they
\* have in the batch.
\* ------------------------------------------------------------------------
C22_DisjointOrderedCover ==
  /\ \A l \in Range(batch) :
       Cardinality({ p \in Keys \X (1 .. Len(Urls)) :
                       /\ p[2] \in DOMAIN domain_groups[p[1]]
                       /\ domain_groups[p[1]][p[2]] = l }) = 1
  /\ \A k \in Keys : \A i \in DOMAIN domain_groups[k] :
       /\ domain_groups[k][i] \in Range(batch)
       /\ extract_domain(Urls[domain_groups[k][i]]) = k
  /\ \A k \in Keys : \A i, j \in DOMAIN domain_groups[k] :
       i < j => BatchPos(domain_groups[k][i]) < BatchPos(domain_groups[k][j])

\* a batch in which a/2 comes before b/1 and www.a/1: the group of a keeps
\* a/2 first
C22_Witness ==
  /\ runs = 1
  /\ batch = << 2, 3, 1 >>
  /\ domain_groups[<< "a" >>] = << 2, 1 >>
  /\ domain_groups[<< "b" >>] = << 3 >>

\* nothing of the current run has been done for link l: no status write and
\* no gateway call
Untouched(l) ==
  /\ status[l] = at_start[l]
  /\ error_message[l] = "NULL"
  /\ calls[l] = 0

\* ------------------------------------------------------------------------
\* C23: within a domain the links are processed in the order of the group:
\* whenever a step of a run writes the status of a link or issues a gateway
\* call for it, nothing has been written or called yet for any link that
\* comes later in the list of the same domain.  So every status write and
\* gateway call for the earlier of two links is before any for the later.
\* ------------------------------------------------------------------------
C23_InOrderWithinDomain ==
  [][ \A k \in Keys : \A p, q \in DOMAIN domain_groups[k] :
        ( /\ cpc = "running"
          /\ p < q
          /\ \/ status'[domain_groups[k][p]] # status[domain_groups[k][p]]
             \/ error_message'[domain_groups[k][p]] # error_message[domain_groups[k][p]]
             \/ calls'[domain_groups[k][p]] # calls[domain_groups[k][p]] )
        => Untouched(domain_groups[k][q]) ]_vars

\* the worker of domain a has a gateway call in flight for its second link
\* after its first link has reached a terminal status
C23_Witness ==
  /\ cpc = "running"
  /\ Len(domain_groups[<< "a" >>]) = 2
  /\ idx[<< "a" >>] = 2
  /\ wpc[<< "a" >>] = "inflight"
  /\ status[domain_groups[<< "a" >>][1]] \in Terminal
  /\ calls[domain_groups[<< "a" >>][1]] > 0

\* ------------------------------------------------------------------------
\* C24: two consecutive returns of _apply_rate_limit for the same domain
\* are at least SAME_DOMAIN_DELAY seconds apart, so the j-th return for a
\* domain is at least (j - i) * SAME_DOMAIN_DELAY after the i-th: a worker
\* that is given N links of one domain takes at least
\* (N - 1) * SAME_DOMAIN_DELAY from its first link to its last, however
\* fast the gateway answers.
\* ------------------------------------------------------------------------
C24_MinInterval ==
  \A k \in Keys : \A i, j \in DOMAIN wait_returns[k] :
    i < j => wait_returns[k][j] - wait_returns[k][i] >= (j - i) * SAME_DOMAIN_DELAY

\* the worker of domain a is past the wait for its second link, which
\* returned exactly SAME_DOMAIN_DELAY seconds after the wait for its first
C24_Witness ==
  /\ cpc = "running"
  /\ Len(domain_groups[<< "a" >>]) = 2
  /\ idx[<< "a" >>] = 2
  /\ wpc[<< "a" >>] = "check"
  /\ wait_returns[<< "a" >>] = << 0, SAME_DOMAIN_DELAY >>

\* ------------------------------------------------------------------------
\* C25: the rate limiter is per domain.  A call of _apply_rate_limit for a
\* domain computes its sleep from the entry of that domain only and writes
\* only that entry; a worker sleeps only when the last return for its own
\* domain is less than SAME_DOMAIN_DELAY ago; and whatever the workers of
\* the other domains are doing (sleeping, or waiting for the gateway), a
\* worker can enter the limiter, leave it once its own sleep is over, and
\* issue its gateway call.  So the gateway calls of single-link domains,
\* no more than MAX_CONCURRENT_DOMAINS of them, can all be in flight at once.
\* ------------------------------------------------------------------------
C25_PerDomainLimiter ==
  /\ [](\A k \in Keys :
         /\ (wpc[k] = "sleep" /\ now < wake[k]) =>
              /\ wait_returns[k] # << >>
              /\ wake[k] <= wait_returns[k][Len(wait_returns[k])] + SAME_DOMAIN_DELAY
         /\ wpc[k] = "rate" => ENABLED RateLimitEnter(k)
         /\ (wpc[k] = "sleep" /\ now >= wake[k]) => ENABLED RateLimitReturn(k)
         /\ (wpc[k] = "attempt" /\ ai_processor) => ENABLED CallGateway(k))
  /\ [][ \A k \in Keys :
          (wpc[k] \in {"rate", "sleep"} /\ wpc'[k] # wpc[k]) =>
            /\ \A d \in Keys \ {k} :
                 /\ wake'[d] = wake[d]
                 /\ d \in DOMAIN domain_last_request' <=> d \in DOMAIN domain_last_request
                 /\ d \in DOMAIN domain_last_request =>
                      domain_last_request'[d] = domain_last_request[d]
            /\ wpc[k] = "rate" =>
                 wake'[k] = IF /\ k \in DOMAIN domain_last_request
                               /\ now < domain_last_request[k] + SAME_DOMAIN_DELAY
                            THEN domain_last_request[k] + SAME_DOMAIN_DELAY
                            ELSE now ]_vars

\* the gateway calls of the two single-link domains of a batch are in
\* flight together, and no time has passed since the run started
C25_Witness ==
  /\ now = 0
  /\ Cardinality(RunKeys) = 2
  /\ \A k \in RunKeys : Len(domain_groups[k]) = 1 /\ wpc[k] = "inflight"

\* ------------------------------------------------------------------------
\* C26: a worker without a gateway issues no gateway call and marks no link
\* failed; when a run has returned, every link of its batch whose domain is
\* not blacklisted is pending again and has one detail, with status skipped,
\* and the run counts every link of the batch as skipped, none as failed or
\* success.
\* ------------------------------------------------------------------------
C26_NoGatewayLeavesPending ==
  ~ai_processor =>
    /\ \A l \in Links : calls[l] = 0 /\ status[l] # "failed"
    /\ (cpc = "idle" /\ runs > 0) =>
         /\ \A l \in Range(batch) :
              ~is_domain_blacklisted(domain_of(l)) =>
                /\ status[l] = "pending"
                /\ \E i \in DOMAIN stats.details :
                     /\ stats.details[i].link_id = l
                     /\ stats.details[i].status = "skipped"
                /\ \A i \in DOMAIN stats.details :
                     stats.details[i].link_id = l =>
                       stats.details[i].status = "skipped"
         /\ stats.failed = 0
         /\ stats.success = 0
         /\ stats.skipped = Len(batch)

\* a run over four links has returned: a/2, whose domain is blacklisted, is
\* blocked, and b/1 went through processing back to pending
C26_Witness ==
  /\ ~ai_processor
  /\ cpc = "idle"
  /\ runs = 1
  /\ Len(batch) = 4
  /\ status[2] = "blocked"
  /\ status[3] = "pending"
  /\ error_message[3] = "AI processor not configured"
  /\ stats.skipped = 4

\* ------------------------------------------------------------------------
\* C27: a gateway response that is None or empty, or that carries neither
\* success nor blocked, is handled like a failure: the step in which the
\* call returns uses up one attempt and writes nothing to the store (no
\* content, no status), the worker goes to the next attempt while attempts
\* are left and leaves the loop when they are not, and nothing else of the
\* worker or the run changes; the link of a worker that has left the loop
\* is written failed and counted failed.
\* ------------------------------------------------------------------------
C27_MalformedIsFailure ==
  [][ \A k \in Keys :
        /\ ( /\ wpc[k] = "inflight"
             /\ Len(returned'[k]) = Len(returned[k]) + 1
             /\ returned'[k][Len(returned'[k])] \in {"NONE", "FAILURE"} )
           => /\ attempt'[k] = attempt[k] + 1
              /\ wpc'[k] = IF attempt[k] < MAX_RETRIES THEN "attempt"
                            ELSE "exhausted"
              /\ last_error'[k] # "None"
              /\ UNCHANGED << store, idx, wstats, calls, coord, blocked_seen >>
        /\ (wpc[k] = "exhausted" /\ Finishes(k))
           => /\ status'[cur(k)] = "failed"
              /\ wstats'[k].failed = wstats[k].failed + 1
              /\ processed_content' = processed_content ]_vars

\* the gateway returned None for both attempts of a link: the worker has
\* left the loop, the link has no content and is about to be written failed
C27_Witness ==
  \E k \in Keys :
    /\ wpc[k] = "exhausted"
    /\ returned[k] = << "NONE", "NONE" >>
    /\ calls[cur(k)] = MAX_RETRIES
    /\ processed_content[cur(k)] = 0
    /\ status[cur(k)] = "processing"

\* ------------------------------------------------------------------------
\* C28: an item whose url is not valid causes no store operation: the step
\* that takes it leaves every table as it is, adds one to invalid and to no
\* other counter, and leaves the run at the head of its loop, where the
\* next item can be taken; only a valid item gets to url_exists, the title
\* update or the insert.
\* ------------------------------------------------------------------------
C28_InvalidSkipped ==
  /\ [](\A r \in Discoverers :
         /\ dpc[r] \in {"exists", "backfill", "insert"} => is_valid_url(item[r].url)
         /\ (dpc[r] = "next" /\ taken[r] < MaxItems) =>
              \A it \in Items : ENABLED NextItem(r, it))
  /\ [][ \A r \in Discoverers :
          (taken'[r] = taken[r] + 1 /\ ~is_valid_url(item'[r].url)) =>
            /\ summary'[r] = [ summary[r] EXCEPT !.invalid = @ + 1 ]
            /\ dpc'[r] = "next"
            /\ UNCHANGED << store, news_links, title, seen >> ]_vars

\* a run has returned after an invalid item and then a new link: one
\* invalid, one inserted
C28_Witness ==
  \E r \in Discoverers :
    /\ dpc[r] = "done"
    /\ summary[r].invalid = 1
    /\ summary[r].new_links = 1
    /\ is_valid_url(item[r].url)
    /\ Len(news_links) > 3

\* this step commits a content write for link l: a row is added, or the
\* row of the link is replaced
WritesContent(l) ==
  /\ cpc = "running"
  /\ \/ processed_content'[l] # processed_content[l]
     \/ saves'[l] # saves[l]

\* the worker that is at link l has just got a success from the gateway
SuccessAttempt(l) ==
  \E k \in Keys :
    /\ wpc[k] \notin {"none", "queued", "done", "raised"}
    /\ cur(k) = l
    /\ returned[k] # << >>
    /\ returned[k][Len(returned[k])] = "SUCCESS"

C30_RunTerminates ==
  /\ (cpc = "running") ~> (cpc = "idle")
  /\ [](\A l \in Links : calls[l] <= MAX_RETRIES)
  /\ []((cpc = "idle" /\ runs > 0) =>
          \A k \in RunKeys : \A i \in DOMAIN domain_groups[k] :
            wpc[k] # "raised" =>
              \/ status[domain_groups[k][i]] \in Terminal
              \/ ~ai_processor /\ status[domain_groups[k][i]] = "pending")

\* a run over two domains has returned: the worker of one ended with an
\* exception and left its link in processing, the link of the other is
\* failed after MAX_RETRIES gateway calls
C30_Witness ==
  /\ cpc = "idle"
  /\ runs > 0
  /\ \E k, j \in RunKeys :
       /\ wpc[k] = "raised"
       /\ status[domain_groups[k][idx[k]]] = "processing"
       /\ wpc[j] = "done"
       /\ \E i \in DOMAIN domain_groups[j] :
            /\ status[domain_groups[j][i]] = "failed"
            /\ calls[domain_groups[j][i]] = MAX_RETRIES

C32_ErrorOnlyWhenFailedOrBlocked ==
  \A l \in Links :
    status[l] \in {"pending", "processing", "completed"} => error_message[l] = "NULL"

\* ------------------------------------------------------------------------
\* C33 as stated: in every reachable state, also after a link was reset or
\* processed again, a link whose status is pending or processing has a null
\* processed_at.
\* ------------------------------------------------------------------------
C33_NullStampUntilTerminal ==
  \A l \in Links :
    status[l] \in {"pending", "processing"} => processed_at[l] = "NULL"

\* ------------------------------------------------------------------------
\* Two coordinator runs on one ProcessorWorker.  The endpoints of
\* frontend/server.py are plain functions, which the server runs on the
\* threads of its pool, and they share the module-level processor_worker:
\* a second request can enter process_pending_links while the run of the
\* first is under way.  Each call has its own locals, pool and futures; the
\* store, the gateway and domain_last_request are the shared ones.  The
\* variables of the run hold the locals of the run whose thread is
\* scheduled, other holds those of the run that is not.
\* ------------------------------------------------------------------------
NoRun == [ cpc |-> "none" ]

\* the locals of the scheduled run
ThisRun ==
  [ cpc |-> cpc, kind |-> kind, runs |-> runs, batch |-> batch,
    domain_groups |-> domain_groups, queue |-> queue, stats |-> stats,
    collected |-> collected, wpc |-> wpc, idx |-> idx, attempt |-> attempt,
    last_error |-> last_error, wstats |-> wstats, calls |-> calls,
    returned |-> returned, reached_blacklisted |-> reached_blacklisted,
    at_start |-> at_start, saves |-> saves, wake |-> wake ]

\* the locals of a call that has not started yet
NewRun ==
  [ cpc |-> "idle", kind |-> "none", runs |-> 0, batch |-> << >>,
    domain_groups |-> [ k \in Keys |-> << >> ], queue |-> << >>,
    stats |-> ZeroAggregate, collected |-> {},
    wpc |-> [ k \in Keys |-> "none" ], idx |-> [ k \in Keys |-> 0 ],
    attempt |-> [ k \in Keys |-> 0 ],
    last_error |-> [ k \in Keys |-> "None" ],
    wstats |-> [ k \in Keys |-> ZeroStats ],
    calls |-> [ l \in Links |-> 0 ], returned |-> [ k \in Keys |-> << >> ],
    reached_blacklisted |-> {}, at_start |-> status,
    saves |-> [ l \in Links |-> 0 ], wake |-> [ k \in Keys |-> 0 ] ]

\* the threads of run r are scheduled
Resume(r) ==
  /\ cpc' = r.cpc
  /\ kind' = r.kind
  /\ runs' = r.runs
  /\ batch' = r.batch
  /\ domain_groups' = r.domain_groups
  /\ queue' = r.queue
  /\ stats' = r.stats
  /\ collected' = r.collected
  /\ wpc' = r.wpc
  /\ idx' = r.idx
  /\ attempt' = r.attempt
  /\ last_error' = r.last_error
  /\ wstats' = r.wstats
  /\ calls' = r.calls
  /\ returned' = r.returned
  /\ reached_blacklisted' = r.reached_blacklisted
  /\ at_start' = r.at_start
  /\ saves' = r.saves
  /\ wake' = r.wake

\* a second request is taken by a server thread while a run is under way
SecondRequest ==
  /\ other = NoRun
  /\ cpc = "running"
  /\ other' = ThisRun
  /\ Resume(NewRun)
  /\ UNCHANGED << store, ai_processor, tasks, domain_last_request, now,
                  wait_returns, discovery, blocked_seen, faults >>

\* the scheduler switches between the threads of the two runs
Switch ==
  /\ other # NoRun
  /\ other' = ThisRun
  /\ Resume(other)
  /\ UNCHANGED << store, ai_processor, tasks, domain_last_request, now,
                  wait_returns, discovery, blocked_seen, faults >>

\* the first call of a request that goes through process_specific_links
first_reprocess(limit) ==
  /\ runs = 0
  /\ reprocess_task_links(limit)

\* SpecOverlap: b/1 is pending, the worker has a gateway or has none, the
\* store does not raise, and up to two requests, each for pending links or
\* for pending and failed links, are served
InitOverlap == InitWith({3}, BOOLEAN)

NextOverlap ==
  \/ \E limit \in 1 .. Len(Urls) : first_run(limit)
  \/ \E limit \in 1 .. Len(Urls) : first_reprocess(limit)
  \/ SecondRequest
  \/ Switch
  \/ Work

SpecOverlap == InitOverlap /\ [][NextOverlap]_vars

\* the workers of the run that is not scheduled, and the link each is at
OtherActive ==
  IF other = NoRun THEN {}
  ELSE { k \in Keys : other.wpc[k] \notin {"none", "queued", "done", "raised"} }

other_cur(k) == other.domain_groups[k][other.idx[k]]

\* ------------------------------------------------------------------------
\* C34 as stated: when two coordinator runs overlap on one store and one
\* ProcessorWorker, no link is being processed by a domain worker of each
\* run, and no domain has a gateway call of each run in flight.
\* ------------------------------------------------------------------------
C34_OverlapKeepsWorkersApart ==
  \A k \in Active : \A j \in OtherActive :
    /\ cur(k) # other_cur(j)
    /\ ~( /\ wpc[k] = "inflight"
          /\ other.wpc[j] = "inflight"
          /\ domain_of(cur(k)) = domain_of(other_cur(j)) )

\* ------------------------------------------------------------------------
\* C35 as stated: every discovery run counts each input item exactly once,
\* also when another run inserts the same url between its exists-check and
\* its insert: whenever the run is between two items or has returned,
\* new_links + duplicates + invalid is the number of items it has taken and
\* the urls list has new_links entries.
\* ------------------------------------------------------------------------
C35_EveryItemCountedOnce ==
  \A r \in Discoverers :
    dpc[r] \in {"next", "done"} =>
      /\ summary[r].new_links + summary[r].duplicates + summary[r].invalid
           = taken[r]
      /\ Len(summary[r].urls) = summary[r].new_links

\* the stored status a per-link outcome record with this status stands for
StoredAs(s) ==
  CASE s = "success" -> "completed"
    [] s = "failed"  -> "failed"
    [] s = "blocked" -> "blocked"
    [] s = "skipped" -> "pending"
    [] OTHER         -> "none"

\* ------------------------------------------------------------------------
\* C36: when a domain worker returns, the status of each per-link outcome
\* record of its details agrees with the stored status of the link: the
\* record is one of success, failed, blocked and skipped, it says success
\* iff the link is completed, failed iff failed, blocked iff blocked, and
\* skipped iff pending.
\* ------------------------------------------------------------------------
C36_DetailsAgreeWithStore ==
  [][ \A k \in Keys :
        (wpc[k] # "done" /\ wpc'[k] = "done") =>
          \A i \in DOMAIN wstats'[k].details :
            LET d == wstats'[k].details[i]
            IN  /\ d.status \in {"success", "failed", "blocked", "skipped"}
                /\ status'[d.link_id] = StoredAs(d.status) ]_vars

\* a worker has returned with two records of different status: the first
\* link of its domain was reported blocked and the second was skipped as
\* blacklisted, or one was completed and the other failed
C36_Witness ==
  \E k \in Keys :
    /\ wpc[k] = "done"
    /\ Len(wstats[k].details) = 2
    /\ wstats[k].details[1].status # "success"
    /\ wstats[k].details[2].status \in {"success", "blocked"}
    /\ \A i \in 1 .. 2 :
         status[wstats[k].details[i].link_id] = StoredAs(wstats[k].details[i].status)

\* ------------------------------------------------------------------------
\* C37: the blacklist only grows and stays keyed by domain: no step removes
\* the entry of a domain, a domain has at most one entry (an upsert for a
\* blacklisted domain leaves the one entry in place), an entry is added for
\* the domain of the link the gateway reported blocked and for nothing else,
\* and once is_domain_blacklisted(d) is true it is true in every later
\* state.
\* ------------------------------------------------------------------------
C37_BlacklistOnlyGrows ==
  /\ [](\A d \in Keys : blacklisted_sites[d] <= 1)
  /\ [][ \A d \in Keys :
           /\ blacklisted_sites'[d] >= blacklisted_sites[d]
           /\ is_domain_blacklisted(d) => blacklisted_sites'[d] > 0
           /\ blacklisted_sites'[d] > blacklisted_sites[d] =>
                /\ d \in Domains
                /\ wpc[d] = "blk_add"
                /\ d = domain_of(cur(d)) ]_vars

\* the workers of two overlapping runs have both been told that b/1 is
\* blocked and both have called add_blacklisted_site for b: the second call
\* found the entry of the first, and b has one entry
C37_Witness ==
  /\ other # NoRun
  /\ \E k \in Active : \E j \in OtherActive :
       /\ wpc[k] = "blk_status"
       /\ other.wpc[j] = "blk_status"
       /\ domain_of(cur(k)) = domain_of(other_cur(j))
       /\ blacklisted_sites[domain_of(cur(k))] = 1

\* ------------------------------------------------------------------------
\* NewsSearchModule.execute_search(prompt, task_name) for the run r: the
\* search, _process_urls on what it found, the statistics of the task, the
\* processing of the new links, and the run summary.
\* ------------------------------------------------------------------------
AUTO_PROCESS_AFTER_SEARCH == TRUE

\* the attributes SearchClient.__init__ sets; search() sets no other
SearchClient_attributes == {"api_url", "api_key", "model"}

\* the entry of execute_search up to the call of search_client.search
execute_search(r) ==
  /\ dpc[r] = "none"
  /\ dpc' = [ dpc EXCEPT ![r] = "search" ]
  /\ UNCHANGED << store, news_links, title, item, taken, seen, summary,
                  ai_processor, other, tasks, timing, domain_last_request, coord, worker,
                  hist, faults >>

\* search_client.search returns a list (found) or None.  On None the
\* statement error_reason = search_client.last_error or "unknown error" is
\* executed: reading an attribute the object does not have raises
\* AttributeError, which leaves execute_search; otherwise the result with
\* success False is returned.  On a list _process_urls is entered.
SearchReturns(r, found) ==
  /\ dpc[r] = "search"
  /\ IF found
     THEN /\ dpc' = [ dpc EXCEPT ![r] = "next" ]
          /\ summary' = [ summary EXCEPT ![r] = ZeroSummary ]
     ELSE /\ dpc' = [ dpc EXCEPT ![r] =
                       IF "last_error" \in SearchClient_attributes
                       THEN "failed" ELSE "raised" ]
          /\ summary' = summary
  /\ UNCHANGED << store, news_links, title, item, taken, seen,
                  ai_processor, other, tasks, timing, domain_last_request, coord, worker,
                  hist, faults >>

\* self.db.update_task_run_stats(task_name, results["new_links"])
update_task_run_stats(r) ==
  /\ dpc[r] = "done"
  /\ query_tasks' =
       [ total_runs |-> query_tasks.total_runs + 1,
         total_links_found |->
           query_tasks.total_links_found + summary[r].new_links ]
  /\ dpc' = [ dpc EXCEPT ![r] = "stats" ]
  /\ UNCHANGED << store, news_links, title, item, taken, seen, summary,
                  ai_processor, other, query_task_runs, timing,
                  domain_last_request, coord, worker, hist, faults >>

\* the auto-processing branch: with a gateway and at least one new link the
\* new links are handed to process_specific_links
AutoProcess(r) ==
  /\ dpc[r] = "stats"
  /\ IF AUTO_PROCESS_AFTER_SEARCH /\ ai_processor /\ summary[r].new_links > 0
     THEN /\ cpc = "idle"
          /\ process_specific_links("specific", summary[r].urls)
          /\ dpc' = [ dpc EXCEPT ![r] = "processing" ]
     ELSE /\ dpc' = [ dpc EXCEPT ![r] = "record" ]
          /\ UNCHANGED << coord, worker, calls, returned, reached_blacklisted,
                          at_start, saves >>
  /\ UNCHANGED << store, news_links, title, item, taken, seen, summary,
                  ai_processor, other, tasks, timing, domain_last_request, blocked_seen,
                  faults >>

\* self.db.record_task_run(task_name, run_summary), after
\* process_specific_links has returned if it was called, and the return of
\* search_result
record_task_run(r) ==
  /\ \/ dpc[r] = "record"
     \/ dpc[r] = "processing" /\ cpc = "idle"
  /\ query_task_runs' = query_task_runs + 1
  /\ dpc' = [ dpc EXCEPT ![r] = "returned" ]
  /\ UNCHANGED << store, news_links, title, item, taken, seen, summary,
                  ai_processor, other, query_tasks, timing,
                  domain_last_request, coord, worker, hist, faults >>

\* no other call of execute_search is under way
Alone(r) ==
  \A q \in Discoverers \ {r} : dpc[q] \in {"none", "failed", "raised", "returned"}

\* NewsSearchModule.run_task for an active task, one call at a time
run_task(r) ==
  /\ Alone(r)
  /\ execute_search(r)

\* SpecSearch: b/1 is stored and pending, the worker has a gateway or has
\* none, and the task is run up to twice, one run after the other; the
\* search client finds up to MaxItems items or nothing, and the gateway
\* answers with a success or a failure
InitSearch == InitWith({3}, BOOLEAN)

NextSearch ==
  \/ \E r \in Discoverers : run_task(r)
  \/ \E r \in Discoverers, found \in BOOLEAN : SearchReturns(r, found)
  \/ \E r \in Discoverers, it \in Items : NextItem(r, it)
  \/ \E r \in Discoverers : CheckExists(r)
  \/ \E r \in Discoverers : BackfillTitle(r)
  \/ \E r \in Discoverers : insert_news_link(r)
  \/ \E r \in Discoverers : ReturnSummary(r)
  \/ \E r \in Discoverers : update_task_run_stats(r)
  \/ \E r \in Discoverers : AutoProcess(r)
  \/ \E r \in Discoverers : record_task_run(r)
  \/ \E k \in Keys : Dispatch(k)
  \/ \E k \in Keys : ApplyRateLimit(k)
  \/ \E k \in Keys : CheckBlacklist(k)
  \/ \E k \in Keys : MarkProcessing(k)
  \/ \E k \in Keys : CallGateway(k)
  \/ \E k \in Keys : GatewayReturn(k, "SUCCESS")
  \/ \E k \in Keys : GatewayReturn(k, "FAILURE")
  \/ \E k \in Keys : SaveContent(k)
  \/ \E k \in Keys : WriteCompleted(k)
  \/ \E k \in Keys : WriteFailed(k)
  \/ \E k \in Keys : Collect(k)
  \/ Return

SpecSearch == InitSearch /\ [][NextSearch]_vars

\* ------------------------------------------------------------------------
\* C38 as stated: when the search client returns None, execute_search
\* returns a result with success false and an error text, without raising,
\* and leaves the store as it is: no link inserted, no title backfilled, no
\* task statistics updated, no run summary recorded, no link processed.
\* ------------------------------------------------------------------------
C38_NoResultIsFailedResult ==
  [][ \A r \in Discoverers :
        (dpc[r] = "search" /\ dpc'[r] \notin {"search", "next"}) =>
          /\ dpc'[r] = "failed"
          /\ UNCHANGED << store, news_links, title, tasks, coord, worker >> ]_vars

====
